---- MODULE Spec2Model ----
\* Verification model of the Markdown visualizer page (src/unnamed/part_002):
\* the section segmenter findHeadingsAndContent, the diagram generator
\* generateMermaidCode and its helper sanitizeText, the title inference
\* generateTitleFromContent, the component MermaidDiagram and the handlers
\* of the Home page; and of the document store wrapper
\* (src/src/lib/firebase/firebaseUtils.ts).
\*
\* Strings are sequences of one-character strings, so that split, trim,
\* replace, toLowerCase and includes are computed character by character.
EXTENDS Integers, Sequences, FiniteSets, TLC

VARIABLES
    markdown,     \* argument of findHeadingsAndContent
    segDone,      \* findHeadingsAndContent has been applied to markdown
    sections,     \* the list it returned
    segRaised,    \* it ended with an exception instead of returning
    content,      \* first argument of generateMermaidCode
    heading,      \* second argument of generateMermaidCode
    genDone,      \* generateMermaidCode has been applied
    code,         \* the program it returned, as a list of lines
    text,         \* argument of sanitizeText
    sanCalls,     \* how many times sanitizeText has been applied (0, 1, 2)
    sanOnce,      \* sanitizeText(text)
    sanTwice,     \* sanitizeText(sanitizeText(text))
    titleContent, \* argument of generateTitleFromContent
    titleDone,    \* generateTitleFromContent has been applied
    title,        \* the title it returned
    store,        \* the documents of the collection 'reports'
    usedIds,      \* the document ids addDoc has issued so far
    clock,        \* the time new Date() last returned
    dbReady,      \* the module ./firebase exports db and auth
    call,         \* the last call of the document store wrapper
    result,       \* how that call ended
    user,             \* useAuth().user: the signed-in user, or NoUser
    loading,          \* useAuth().loading
    markdownContent,  \* the state of the Home page, as its useState calls
    animations,       \*   name it
    showVisualization,
    reports,
    selectedReport,   \* <<>> for null, <<report>> otherwise
    reportTitle,
    showReports,
    isSaving,
    isLoadingReports,
    isDownloading,
    loadError,
    showToast,
    toastMessage,
    toastType,
    hideTimers,       \* pending timers of showToastMessage that hide the toast
    clearTimers,      \* pending timers that blank the message
    ownTimers,        \* pending hide timers of the step that showed the toast
    tasks,            \* the handlers that wait for an awaited call
    failure,          \* the collaborator whose failure the last step handled
    diagrams,         \* the MermaidDiagram components of the document
    rejected,         \* the component whose render failed in the last step
    document,         \* what renderDocument returned for the page
    docDone,          \* renderDocument has been applied
    pdf               \* the locals of handleDownloadPDF and the pages it made

vars == <<markdown, segDone, sections, segRaised, content, heading, genDone,
          code, text, sanCalls, sanOnce, sanTwice, titleContent, titleDone,
          title, store, usedIds, clock, dbReady, call, result, user, loading,
          markdownContent, animations, showVisualization, reports,
          selectedReport, reportTitle, showReports, isSaving,
          isLoadingReports, isDownloading, loadError, showToast, toastMessage,
          toastType, hideTimers, clearTimers, ownTimers, tasks, failure,
          diagrams,
          rejected, document, docDone, pdf>>

segVars == <<markdown, segDone, sections, segRaised>>
genVars == <<content, heading, genDone, code>>
sanVars == <<text, sanCalls, sanOnce, sanTwice>>
titleVars == <<titleContent, titleDone, title>>
storeVars == <<store, usedIds, clock, dbReady, call, result>>
editorVars ==
    <<markdownContent, animations, showVisualization, selectedReport,
      reportTitle>>
toastVars ==
    <<showToast, toastMessage, toastType, hideTimers, clearTimers, ownTimers>>
homeVars ==
    <<user, loading, editorVars, reports, showReports, isSaving,
      isLoadingReports, isDownloading, loadError, toastVars, tasks, failure>>
diagVars == <<diagrams, rejected>>
docVars == <<document, docDone>>
pdfVars == <<pdf>>
pureVars == <<segVars, genVars, sanVars, titleVars>>

\* ---------------------------------------------------------------------
\* Bounds of the input sets

\* lines per Markdown document
MaxLines == 4

\* pieces per short content of the generator
MaxWords == 2

\* sentences per long content of the generator
MaxSentences == 6

\* characters per argument of sanitizeText
MaxTextLen == 4

\* lines of a document handed to generateTitleFromContent
MaxTitleLines == 3

\* documents ever added to the collection 'reports'
MaxReports == 3

\* handlers of the Home page that wait for an awaited call at one time
MaxTasks == 2

\* timers of showToastMessage pending at one time
MaxTimers == 2

\* reports saved from the Home page
MaxSaves == 1

\* sections of the document shown, each with its MermaidDiagram
MaxDiagrams == 2

\* lines of a document that is rendered
MaxDocLines == 5

\* ---------------------------------------------------------------------
\* JavaScript string primitives

\* characters String.prototype.trim and the regex class \s remove
WhiteSpace == {" ", "\t", "\n", "\r"}

RECURSIVE trimStart(_)
trimStart(s) ==
    IF s # <<>> /\ Head(s) \in WhiteSpace THEN trimStart(Tail(s)) ELSE s

RECURSIVE trimEnd(_)
trimEnd(s) ==
    IF s # <<>> /\ s[Len(s)] \in WhiteSpace
    THEN trimEnd(SubSeq(s, 1, Len(s) - 1))
    ELSE s

\* String.prototype.trim
trim(s) == trimEnd(trimStart(s))

\* index (1-based) of the first character of s that is in seps, 0 if none
FirstIn(s, seps) ==
    IF \E i \in 1..Len(s) : s[i] \in seps
    THEN CHOOSE i \in 1..Len(s) :
             s[i] \in seps /\ \A j \in 1..(i - 1) : s[j] \notin seps
    ELSE 0

\* String.prototype.split on a one-character separator class
RECURSIVE split(_, _)
split(s, seps) ==
    LET i == FirstIn(s, seps) IN
    IF i = 0 THEN <<s>>
    ELSE <<SubSeq(s, 1, i - 1)>> \o split(SubSeq(s, i + 1, Len(s)), seps)

\* Array.prototype.join
RECURSIVE join(_, _)
join(parts, sep) ==
    IF parts = <<>> THEN <<>>
    ELSE IF Len(parts) = 1 THEN parts[1]
    ELSE parts[1] \o sep \o join(Tail(parts), sep)

\* Array.prototype.slice(from, to) with zero-based, end-exclusive indices
slice(seq, from, to) ==
    LET lo == IF from < 0 THEN 0 ELSE from
        hi == IF to > Len(seq) THEN Len(seq) ELSE to
    IN  SubSeq(seq, lo + 1, hi)

\* String.prototype.startsWith
startsWith(s, prefix) ==
    Len(s) >= Len(prefix) /\ SubSeq(s, 1, Len(prefix)) = prefix

\* ---------------------------------------------------------------------
\* findHeadingsAndContent

\* variant: a line that holds a '#' anywhere is taken as a heading line
IsHeadingLineContains(line) == \E i \in 1..Len(line) : line[i] = "#"

\* line.startsWith('#')
IsHeadingLine(line) == startsWith(line, <<"#">>)

\* length of the run of '#' a line starts with
RECURSIVE HashRun(_)
HashRun(line) ==
    IF line # <<>> /\ Head(line) = "#" THEN 1 + HashRun(Tail(line)) ELSE 0

\* line.replace(/^#+\s+/, ''): the regex matches only when whitespace follows
\* the run of '#'; otherwise the line is returned as it is
StripHeading(line) ==
    LET n    == HashRun(line)
        rest == SubSeq(line, n + 1, Len(line))
    IN  IF n > 0 /\ rest # <<>> /\ Head(rest) \in WhiteSpace
        THEN trimStart(rest)
        ELSE line

\* variant: the slice starts at the heading line itself
SectionContentFromHeading(lines, from, to) ==
    trim(join(slice(lines, from - 1, to), <<"\n">>))

\* lines.slice(from, to).join('\n').trim()
SectionContent(lines, from, to) == trim(join(slice(lines, from, to), <<"\n">>))

\* variant: currentHeadingIndex starts at 0 instead of -1
ScanInitZero == [sections |-> <<>>, currentHeadingIndex |-> 0, raised |-> FALSE]

\* the locals of findHeadingsAndContent before the scan
ScanInit == [sections |-> <<>>, currentHeadingIndex |-> -1, raised |-> FALSE]

\* if (content) sections[sections.length - 1].content = content;
\* else sections.pop();
\* the assignment throws a TypeError when sections is empty
CloseSection(st, c) ==
    IF c # <<>>
    THEN IF st.sections = <<>>
         THEN [st EXCEPT !.raised = TRUE]
         ELSE [st EXCEPT !.sections[Len(st.sections)].content = c]
    ELSE [st EXCEPT !.sections = slice(st.sections, 0, Len(st.sections) - 1)]

\* the callback of lines.forEach, for the line at zero-based index
ForEachLine(st, lines, index) ==
    LET line == lines[index + 1] IN
    IF st.raised \/ ~IsHeadingLine(line) THEN st
    ELSE LET closed ==
                 IF st.currentHeadingIndex # -1
                 THEN CloseSection(st,
                          SectionContent(lines, st.currentHeadingIndex + 1, index))
                 ELSE st
         IN  IF closed.raised THEN closed
             ELSE [closed EXCEPT
                      !.sections = Append(@, [heading   |-> StripHeading(line),
                                              lineIndex |-> index,
                                              content   |-> <<>>]),
                      !.currentHeadingIndex = index]

\* lines.forEach(...), from zero-based index to the last line
RECURSIVE Scan(_, _, _)
Scan(st, lines, index) ==
    IF index >= Len(lines) THEN st
    ELSE Scan(ForEachLine(st, lines, index), lines, index + 1)

\* "Handle content after the last heading"
AfterLastHeading(st, lines) ==
    IF ~st.raised /\ st.currentHeadingIndex # -1
       /\ st.currentHeadingIndex < Len(lines) - 1
    THEN CloseSection(st,
             SectionContent(lines, st.currentHeadingIndex + 1, Len(lines)))
    ELSE st

\* the result as [sections, raised]
findHeadingsAndContent(md) ==
    LET lines == split(md, {"\n"}) IN
    AfterLastHeading(Scan(ScanInit, lines, 0), lines)

\* ---------------------------------------------------------------------
\* sanitizeText

\* text.replace(/x/g, y) for a single character x
replaceChar(s, x, y) == [i \in 1..Len(s) |-> IF s[i] = x THEN y ELSE s[i]]

\* text.replace(/[...]/g, '') for a character class
RECURSIVE removeChars(_, _)
removeChars(s, class) ==
    IF s = <<>> THEN <<>>
    ELSE IF Head(s) \in class THEN removeChars(Tail(s), class)
    ELSE <<Head(s)>> \o removeChars(Tail(s), class)

\* variant: trims before the quotes, brackets and parentheses are handled
sanitizeTextTrimFirst(t) ==
    removeChars(removeChars(replaceChar(trim(t), "\"", "'"), {"[", "]"}),
                {"(", ")"})

\* replace(/"/g, "'"), replace(/[[\]]/g, ''), replace(/[()]/g, ''), trim()
sanitizeText(t) ==
    trim(removeChars(removeChars(replaceChar(t, "\"", "'"), {"[", "]"}),
                     {"(", ")"}))

\* ---------------------------------------------------------------------
\* containsKeywords

\* the lower-case letter of every upper-case letter
LowerCase ==
    ("A" :> "a") @@
    ("B" :> "b") @@
    ("C" :> "c") @@
    ("D" :> "d") @@
    ("E" :> "e") @@
    ("F" :> "f") @@
    ("G" :> "g") @@
    ("H" :> "h") @@
    ("I" :> "i") @@
    ("J" :> "j") @@
    ("K" :> "k") @@
    ("L" :> "l") @@
    ("M" :> "m") @@
    ("N" :> "n") @@
    ("O" :> "o") @@
    ("P" :> "p") @@
    ("Q" :> "q") @@
    ("R" :> "r") @@
    ("S" :> "s") @@
    ("T" :> "t") @@
    ("U" :> "u") @@
    ("V" :> "v") @@
    ("W" :> "w") @@
    ("X" :> "x") @@
    ("Y" :> "y") @@
    ("Z" :> "z")

\* String.prototype.toLowerCase
toLowerCase(s) ==
    [i \in 1..Len(s) |-> IF s[i] \in DOMAIN LowerCase THEN LowerCase[s[i]] ELSE s[i]]

\* String.prototype.includes
includes(s, sub) ==
    \E i \in 0..(Len(s) - Len(sub)) : SubSeq(s, i + 1, i + Len(sub)) = sub

\* keywords.some(keyword => text.toLowerCase().includes(keyword.toLowerCase()))
containsKeywords(t, keywords) ==
    LET low == toLowerCase(t) IN
    \E k \in 1..Len(keywords) : includes(low, toLowerCase(keywords[k]))

\* ---------------------------------------------------------------------
\* generateMermaidCode

PartnershipKeywords ==
    <<<<"a", "g", "r", "e", "e", "m", "e", "n", "t">>, <<"p", "a", "r", "t", "n", "e", "r", "s", "h", "i", "p">>, <<"t", "r", "a", "d", "e">>, <<"c", "o", "l", "l", "a", "b", "o", "r", "a", "t", "i", "o", "n">>>>

MarketKeywords ==
    <<<<"m", "a", "r", "k", "e", "t">>, <<"g", "r", "o", "w", "t", "h">>, <<"o", "p", "p", "o", "r", "t", "u", "n", "i", "t", "y">>, <<"e", "x", "p", "a", "n", "s", "i", "o", "n">>>>

\* the keywords the market branch filters its sentences with
OpportunityKeywords ==
    <<<<"g", "r", "o", "w", "t", "h">>, <<"o", "p", "p", "o", "r", "t", "u", "n", "i", "t", "y">>, <<"p", "o", "t", "e", "n", "t", "i", "a", "l">>, <<"m", "a", "r", "k", "e", "t">>>>

CompetitiveKeywords ==
    <<<<"c", "o", "m", "p", "e", "t", "i", "t", "i", "v", "e">>, <<"v", "e", "r", "s", "u", "s">>, <<"v", "s">>, <<"c", "o", "m", "p", "a", "r", "e", "d">>, <<"c", "o", "m", "p", "e", "t", "i", "t", "i", "o", "n">>>>

SequentialKeywords ==
    <<<<"s", "t", "e", "p">>, <<"p", "r", "o", "c", "e", "s", "s">>, <<"t", "i", "m", "e", "l", "i", "n", "e">>, <<"s", "e", "q", "u", "e", "n", "c", "e">>, <<"f", "i", "r", "s", "t">>, <<"t", "h", "e", "n">>,
      <<"f", "i", "n", "a", "l", "l", "y">>>>

\* the arguments of the five slice(0, n) calls
MaxEntities == 4
MaxOpportunities == 4
MaxAspects == 3
MaxSteps == 5
MaxKeyPoints == 5

\* the length a mind map leaf is cut to
MaxLeafLength == 50

\* variant: the market test runs before the partnership test
SelectBranchMarketFirst(c) ==
    IF containsKeywords(c, MarketKeywords) THEN "market"
    ELSE IF containsKeywords(c, PartnershipKeywords) THEN "partnership"
    ELSE IF containsKeywords(c, CompetitiveKeywords) THEN "competitive"
    ELSE IF containsKeywords(c, SequentialKeywords) THEN "sequential"
    ELSE "default"

\* the if chain: the first branch whose keywords the content contains
SelectBranch(c) ==
    IF containsKeywords(c, PartnershipKeywords) THEN "partnership"
    ELSE IF containsKeywords(c, MarketKeywords) THEN "market"
    ELSE IF containsKeywords(c, CompetitiveKeywords) THEN "competitive"
    ELSE IF containsKeywords(c, SequentialKeywords) THEN "sequential"
    ELSE "default"

\* .filter(s => s.trim().length > 0)
NonEmpty(s) == Len(trim(s)) > 0

\* .filter(s => s.trim().length > 0 && containsKeywords(s, [...]))
IsOpportunity(s) == NonEmpty(s) /\ containsKeywords(s, OpportunityKeywords)

\* variant: the fragments are trimmed but not sanitized
LabelsTrimOnly(parts) == [i \in 1..Len(parts) |-> trim(parts[i])]

\* .map(s => sanitizeText(s.trim()))
Labels(parts) == [i \in 1..Len(parts) |-> sanitizeText(trim(parts[i]))]

\* variant: the entities without the slice that cuts them to MaxEntities
entitiesUncut(c) == Labels(SelectSeq(split(c, {",", ".", ";"}), NonEmpty))

entities(c) ==
    Labels(slice(SelectSeq(split(c, {",", ".", ";"}), NonEmpty), 0, MaxEntities))

opportunities(c) ==
    Labels(slice(SelectSeq(split(c, {".", "!", "?"}), IsOpportunity),
                 0, MaxOpportunities))

aspects(c) ==
    Labels(slice(SelectSeq(split(c, {".", "!", "?"}), NonEmpty), 0, MaxAspects))

steps(c) ==
    Labels(slice(SelectSeq(split(c, {".", "!", "?"}), NonEmpty), 0, MaxSteps))

keyPoints(c) ==
    slice(SelectSeq(split(c, {".", "!", "?"}), NonEmpty), 0, MaxKeyPoints)

\* point.substring(0, 50) + (point.length > 50 ? '...' : '')
nodeText(point) ==
    sanitizeText(slice(point, 0, MaxLeafLength)
                 \o (IF Len(point) > MaxLeafLength THEN <<".", ".", ".">> ELSE <<>>))

\* One line of the program: the template literal of the source that produced
\* it, and the values of its interpolations (index, second index, text).
Line(tpl, i, j, t) == [tpl |-> tpl, i |-> i, j |-> j, text |-> t]

Fixed(tpl) == Line(tpl, -1, -1, <<>>)

RECURSIVE Flatten(_)
Flatten(ss) == IF ss = <<>> THEN <<>> ELSE Head(ss) \o Flatten(Tail(ss))

PartnershipCode(c, h) ==
    LET es == entities(c) IN
    <<Fixed("graph LR\n"),
      Line("    A((\"${sanitizeText(heading)}\"))\n", -1, -1, sanitizeText(h))>>
    \o Flatten([k \in 1..Len(es) |->
          <<Line("    A --> B${index}[\"${entity}\"]\n", k - 1, -1, es[k]),
            Line("    style B${index} fill:#e1f5fe,stroke:#01579b\n", k - 1, -1, <<>>)>>])
    \o <<Fixed("    style A fill:#0277bd,stroke:#01579b,color:#fff\n")>>

MarketCode(c, h) ==
    LET os == opportunities(c) IN
    <<Fixed("graph TD\n"),
      Line("    M((\"${sanitizeText(heading)}\"))\n", -1, -1, sanitizeText(h))>>
    \o Flatten([k \in 1..Len(os) |->
          <<Line("    M --> O${index}[\"${opp}\"]\n", k - 1, -1, os[k]),
            Line("    style O${index} fill:#f3e5f5,stroke:#4a148c\n", k - 1, -1, <<>>)>>])
    \o <<Fixed("    style M fill:#7b1fa2,stroke:#4a148c,color:#fff\n")>>

CompetitiveCode(c) ==
    LET as == aspects(c) IN
    <<Fixed("graph TB\n"), Fixed("    subgraph Comparison\n")>>
    \o [k \in 1..Len(as) |-> Line("    A${index}[\"${aspect}\"]\n", k - 1, -1, as[k])]
    \o [k \in 1..(Len(as) - 1) |-> Line("    A${i} --> A${i + 1}\n", k - 1, k, <<>>)]
    \o <<Fixed("    end\n"),
         Fixed("    style Comparison fill:#f5f5f5,stroke:#333,stroke-width:2px\n")>>
    \o [k \in 1..Len(as) |->
          Line("    style A${index} fill:#e8eaf6,stroke:#1a237e\n", k - 1, -1, <<>>)]

SequentialCode(c) ==
    LET ss == steps(c) IN
    <<Fixed("graph TD\n")>>
    \o Flatten([k \in 1..Len(ss) |->
          <<Line("    S${index}[\"${step}\"]\n", k - 1, -1, ss[k])>>
          \o (IF k - 1 > 0
              THEN <<Line("    S${index-1} --> S${index}\n", k - 2, k - 1, <<>>)>>
              ELSE <<>>)])
    \o [k \in 1..Len(ss) |->
          Line("    style S${index} fill:#fff3e0,stroke:#e65100\n", k - 1, -1, <<>>)]

MindmapCode(c, h) ==
    LET ps == keyPoints(c) IN
    <<Fixed("mindmap\n"),
      Line("  root((${sanitizeText(heading)}))\n", -1, -1, sanitizeText(h))>>
    \o [k \in 1..Len(ps) |-> Line("    ${nodeText}\n", -1, -1, nodeText(ps[k]))]

\* "Fallback to a simple node if no content can be processed"
PlaceholderCode == <<Fixed("graph TD\n    A[\"No content to visualize\"]")>>

generateMermaidCode(c, h) ==
    LET branch == SelectBranch(c) IN
    IF branch = "partnership" THEN PartnershipCode(c, h)
    ELSE IF branch = "market" THEN MarketCode(c, h)
    ELSE IF branch = "competitive" THEN CompetitiveCode(c)
    ELSE IF branch = "sequential" THEN SequentialCode(c)
    ELSE IF Len(keyPoints(c)) > 0 THEN MindmapCode(c, h)
    ELSE PlaceholderCode

\* ---------------------------------------------------------------------
\* generateTitleFromContent

\* characters the regex "." does not match and "^" / "$" (flag m) stop at
LineTerminators == {"\n", "\r"}

\* positions where "^" matches under flag m
LineStarts(s) == { p \in 1..Len(s) : p = 1 \/ s[p - 1] \in LineTerminators }

\* length of the run of \s characters of s that starts at position p
RECURSIVE WhiteRun(_, _)
WhiteRun(s, p) ==
    IF p <= Len(s) /\ s[p] \in WhiteSpace THEN 1 + WhiteRun(s, p + 1) ELSE 0

\* last position of the run of "." characters of s that starts at position p
RECURSIVE DotRunEnd(_, _)
DotRunEnd(s, p) ==
    IF p + 1 <= Len(s) /\ s[p + 1] \notin LineTerminators
    THEN DotRunEnd(s, p + 1)
    ELSE p

\* lengths k that \s+ may take after the "#" at p so that (.+) still finds
\* a character: \s+ is greedy and gives characters back one by one
WhiteTakes(s, p) ==
    { k \in 1..WhiteRun(s, p + 1) :
        p + 1 + k <= Len(s) /\ s[p + 1 + k] \notin LineTerminators }

\* /^#\s+(.+)$/m tried at position p
MatchesAt(s, p) == s[p] = "#" /\ WhiteTakes(s, p) # {}

\* capture group 1 of the match at p: (.+) is greedy and runs to the end of
\* its line, where "$" matches
GroupAt(s, p) ==
    LET ks == WhiteTakes(s, p)
        k == CHOOSE x \in ks : \A y \in ks : y <= x
    IN  SubSeq(s, p + 1 + k, DotRunEnd(s, p + 1 + k))

\* content.match(/^#\s+(.+)$/m): the leftmost match, or null
headingMatch(s) ==
    LET ps == { p \in LineStarts(s) : MatchesAt(s, p) } IN
    IF ps = {} THEN [found |-> FALSE, group |-> <<>>]
    ELSE [found |-> TRUE,
          group |-> GroupAt(s, CHOOSE p \in ps : \A q \in ps : p <= q)]

\* length above which the first line is cut, and what is kept of it
MaxTitleLength == 50
TitleKeep == 47

UntitledReport ==
    <<"U", "n", "t", "i", "t", "l", "e", "d", " ", "R", "e", "p", "o", "r", "t">>

generateTitleFromContent(c) ==
    LET m == headingMatch(c)
        firstLine == trim(split(c, {"\n"})[1])
    IN  IF m.found THEN trim(m.group)
        ELSE IF Len(firstLine) > 0
        THEN IF Len(firstLine) > MaxTitleLength
             THEN SubSeq(firstLine, 1, TitleKeep) \o <<".", ".", ".">>
             ELSE firstLine
        ELSE UntitledReport

\* ---------------------------------------------------------------------
\* The document store wrapper (src/src/lib/firebase/firebaseUtils.ts)
\*
\* A document is a record [id, userId, title, content, animations,
\* createdAt]; the collection is the set of its documents.  A call ends as
\* a record: ok with the value returned, or not ok with the code and the
\* message of the error thrown.

Returned(v) == [ok |-> TRUE, value |-> v, code |-> "", message |-> ""]

Thrown(c, m) == [ok |-> FALSE, value |-> <<>>, code |-> c, message |-> m]

\* what a call of the store's SDK raises: nothing, or an error with a code
NoError == "none"

ErrorCodes ==
    {"failed-precondition", "unavailable", "permission-denied", "internal"}

\* the error the SDK raises when it is handed an undefined db
InvalidArgument == "invalid-argument"

\* the message of the SDK's error with code c
SdkMessage(c) == "firestore/" \o c

NotInitializedMessage ==
    "Firebase not initialized. Please check your configuration."

ConnectivityMessage ==
    "Unable to connect to the database. Please check your internet connection."

PermissionMessage == "You do not have permission to access these reports."

GenericMessage(m) == "Failed to load reports: " \o m

NotFoundMessage == "Report not found"

\* addDoc(reportsRef, {...report, createdAt: new Date(), updatedAt: ...})
\* with the id the store gives the document and the time of the call
addDoc(st, report, id, now) ==
    st \cup { [id |-> id,
               userId |-> report.userId,
               title |-> report.title,
               content |-> report.content,
               animations |-> report.animations,
               createdAt |-> now] }

\* deleteDoc(doc(db, 'reports', reportId)); no document, no effect
deleteDoc(st, reportId) == { d \in st : d.id # reportId }

\* the documents of a set in the order a query without orderBy lists them:
\* by document id
RECURSIVE InIdOrder(_)
InIdOrder(ds) ==
    IF ds = {} THEN <<>>
    ELSE LET d == CHOOSE x \in ds : \A y \in ds : x.id <= y.id
         IN  <<d>> \o InIdOrder(ds \ {d})

\* variant: the query has no where clause
getDocsAll(st, userId) == InIdOrder(st)

\* getDocs(query(reportsRef, where('userId', '==', userId))).docs
getDocs(st, userId) == InIdOrder({ d \in st : d.userId = userId })

\* (a, b) => b.createdAt.getTime() - a.createdAt.getTime()
compareCreatedAt(a, b) == b.createdAt - a.createdAt

\* Array.prototype.sort is stable: r goes behind every element that the
\* comparator does not put after it
RECURSIVE insertSorted(_, _)
insertSorted(r, sorted) ==
    IF sorted = <<>> THEN <<r>>
    ELSE IF compareCreatedAt(Head(sorted), r) <= 0
    THEN <<Head(sorted)>> \o insertSorted(r, Tail(sorted))
    ELSE <<r>> \o sorted

RECURSIVE sortedReports(_)
sortedReports(rs) ==
    IF rs = <<>> THEN <<>>
    ELSE insertSorted(rs[Len(rs)], sortedReports(SubSeq(rs, 1, Len(rs) - 1)))

\* variant: the catch block does not look at the code of the error
getReportsCatchAnyCode(ready, err) ==
    IF ~ready THEN Thrown("", NotInitializedMessage)
    ELSE Thrown("", GenericMessage(SdkMessage(err)))

\* the catch block of getReports, for the error err raised in its try block
getReportsCatch(ready, err) ==
    IF ~ready THEN Thrown("", NotInitializedMessage)
    ELSE IF err \in {"failed-precondition", "unavailable"}
    THEN Thrown("", ConnectivityMessage)
    ELSE IF err = "permission-denied"
    THEN Thrown("", PermissionMessage)
    ELSE Thrown("", GenericMessage(SdkMessage(err)))

\* getReports(userId), when the SDK raises err (or NoError)
getReports(st, userId, ready, err) ==
    IF err # NoError THEN getReportsCatch(ready, err)
    ELSE LET docs == getDocs(st, userId) IN
         IF docs = <<>> THEN Returned(<<>>)
         ELSE Returned(sortedReports(docs))

\* getReport(reportId), when the SDK raises err (or NoError)
getReport(st, reportId, err) ==
    IF err # NoError THEN Thrown(err, SdkMessage(err))
    ELSE IF ~ \E d \in st : d.id = reportId
    THEN Thrown("", NotFoundMessage)
    ELSE Returned(CHOOSE d \in st : d.id = reportId)

\* what the SDK may raise: with an undefined db every call is refused
SdkErrors(ready) ==
    IF ready THEN {NoError} \cup ErrorCodes ELSE {InvalidArgument}

\* the same for the calls that hand the SDK's error on as it is: one code
\* stands for all
SdkErrorsPassed(ready) ==
    IF ready THEN {NoError, "unavailable"} ELSE {InvalidArgument}

\* ---------------------------------------------------------------------
\* The Home page (src/unnamed/part_002, lines 242-917)

\* user === null
NoUser == "null"

\* loadError === null
NoLoadError == "null"

NoReportsMessage == "No reports found. Create a new report to get started."

SavedMessage == "Report saved successfully!"

SaveFailedMessage == "Failed to save report"

PdfSavedMessage == "PDF downloaded successfully!"

PdfFailedMessage == "Failed to generate PDF"

\* a handler that waits for an awaited call, with what its closure holds:
\* the user, the report it built, the id it was called with and the id of
\* the report selected when it was called (0 for none); and the answer of
\* getReports once the store has given it (<<>> before)
Task(kind, pc, u, report, reportId, selected) ==
    [kind |-> kind, pc |-> pc, user |-> u, report |-> report,
     reportId |-> reportId, selected |-> selected, response |-> <<>>]

RemoveAt(seq, i) == SubSeq(seq, 1, i - 1) \o SubSeq(seq, i + 1, Len(seq))

\* variant: the guard of handleSaveReport looks at the user only
CanSaveAnyTitle(u, t) == u # NoUser

\* handleSaveReport goes on: !(!user || !reportTitle.trim())
CanSave(u, t) == u # NoUser /\ trim(t) # <<>>

\* the report handleSaveReport builds
NewReport(u, t, c, a) ==
    [userId |-> u, title |-> t, content |-> c, animations |-> a]

\* handleDownloadPDF has not been called
PdfNotStarted ==
    [pc |-> "idle", diagrams |-> <<>>, i |-> 0, diagramIndex |-> 0,
     images |-> <<>>]

\* documentRef.current.querySelectorAll('.mermaid-container svg'): the svg
\* elements of the components ds in document order, each with the component
\* it was rendered for; a component whose container is empty has none
RECURSIVE collectDiagrams(_, _)
collectDiagrams(ds, k) ==
    IF k > Len(ds) THEN <<>>
    ELSE (IF ds[k].innerHTML = <<>> THEN <<>>
          ELSE <<[component |-> k, svg |-> ds[k].innerHTML]>>)
         \o collectDiagrams(ds, k + 1)

\* animations.find(s => s.lineIndex === i), as the one-based position of the
\* section in the list, 0 for undefined
findSection(anims, i) ==
    IF \E k \in 1..Len(anims) : anims[k].lineIndex = i
    THEN CHOOSE k \in 1..Len(anims) :
             /\ anims[k].lineIndex = i
             /\ \A j \in 1..(k - 1) : anims[j].lineIndex # i
    ELSE 0

\* the loop over the lines in handleDownloadPDF from line p.i on, up to the
\* next await of an image (pc "image") or the end of the loop (pc "save")
RECURSIVE pdfLines(_, _, _)
pdfLines(p, lines, anims) ==
    IF p.i >= Len(lines) THEN [p EXCEPT !.pc = "save"]
    ELSE IF trim(lines[p.i + 1]) = <<>>
    THEN pdfLines([p EXCEPT !.i = @ + 1], lines, anims)
    ELSE IF findSection(anims, p.i) # 0 /\ p.diagramIndex < Len(p.diagrams)
    THEN [p EXCEPT !.pc = "image"]
    ELSE pdfLines([p EXCEPT !.i = @ + 1], lines, anims)

\* img.onerror: the promise is rejected and the catch block of lines 672-674
\* logs the error
imageFailed(p) == [p EXCEPT !.i = @ + 1]

\* img.onload: pdf.addImage with diagrams[diagramIndex], then diagramIndex++
imageLoaded(p) ==
    [p EXCEPT !.images = Append(@, [line |-> p.i,
                                    component |->
                                        p.diagrams[p.diagramIndex + 1].component,
                                    svg |-> p.diagrams[p.diagramIndex + 1].svg]),
              !.diagramIndex = @ + 1,
              !.i = @ + 1]

\* renderDocument returns null
NoDocument == [null |-> TRUE, raised |-> FALSE, content |-> <<>>]

\* <pre key={`text-${index}`}>{text}</pre>, and with index -1 the element
\* with the key "text-final"
TextElement(index, t) ==
    [kind |-> "text", index |-> index, text |-> t, diagram |-> <<>>]

\* <div key={`section-${index}`}>: the heading line, and the MermaidDiagram
\* with the content and the heading of the section
SectionElement(index, line, section) ==
    [kind |-> "section", index |-> index, text |-> line,
     diagram |-> <<[content |-> section.content,
                    heading |-> section.heading]>>]

\* the locals of renderDocument before animations.forEach
RenderInit == [content |-> <<>>, currentLine |-> 0, raised |-> FALSE]

\* variant: currentLine stays at the heading line
RenderSectionKeepsLine(st, lines, section, index) ==
    LET before ==
            IF st.currentLine < section.lineIndex
            THEN Append(st.content,
                     TextElement(index,
                         join(slice(lines, st.currentLine, section.lineIndex),
                              <<"\n">>)))
            ELSE st.content
    IN  IF st.raised THEN st
        ELSE IF section.lineIndex < 0 \/ section.lineIndex >= Len(lines)
        THEN [st EXCEPT !.raised = TRUE]
        ELSE [content     |-> Append(before,
                                  SectionElement(index,
                                      lines[section.lineIndex + 1], section)),
              currentLine |-> section.lineIndex,
              raised      |-> FALSE]

\* the callback of animations.forEach, for the section at zero-based index;
\* lines[section.lineIndex].startsWith throws a TypeError when the document
\* has no such line
RenderSection(st, lines, section, index) ==
    LET before ==
            IF st.currentLine < section.lineIndex
            THEN Append(st.content,
                     TextElement(index,
                         join(slice(lines, st.currentLine, section.lineIndex),
                              <<"\n">>)))
            ELSE st.content
    IN  IF st.raised THEN st
        ELSE IF section.lineIndex < 0 \/ section.lineIndex >= Len(lines)
        THEN [st EXCEPT !.raised = TRUE]
        ELSE [content     |-> Append(before,
                                  SectionElement(index,
                                      lines[section.lineIndex + 1], section)),
              currentLine |-> section.lineIndex + 1,
              raised      |-> FALSE]

\* animations.forEach(...), from zero-based index to the last section
RECURSIVE RenderSections(_, _, _, _)
RenderSections(st, lines, anims, index) ==
    IF index >= Len(anims) THEN st
    ELSE RenderSections(RenderSection(st, lines, anims[index + 1], index),
                        lines, anims, index + 1)

\* "Add any remaining text after the last section"
RenderRest(st, lines) ==
    IF ~st.raised /\ st.currentLine < Len(lines)
    THEN [st EXCEPT !.content =
             Append(@, TextElement(-1,
                 join(slice(lines, st.currentLine, Len(lines)), <<"\n">>)))]
    ELSE st

\* renderDocument() for the state md, anims and show of the page, as
\* [null, raised, content]
renderDocument(md, anims, show) ==
    IF ~show THEN NoDocument
    ELSE LET lines == split(md, {"\n"})
             st    == RenderRest(RenderSections(RenderInit, lines, anims, 0),
                                 lines)
         IN  [null |-> FALSE, raised |-> st.raised,
              content |-> IF st.raised THEN <<>> ELSE st.content]

\* ---------------------------------------------------------------------
\* The component MermaidDiagram (src/unnamed/part_002, lines 59-110)
\*
\* A component is a record: its props content and heading, whether its
\* effect is due, its state diagramCode, isLoading and error, the innerHTML
\* of its container, and the mermaid.render calls it is waiting for, each
\* named by the program it renders.

\* error === null
NoDiagramError == "null"

RenderFailedMessage == "Failed to render diagram"

\* the component as it is mounted
Mounted(props) ==
    [content |-> props.content, heading |-> props.heading, effect |-> TRUE,
     diagramCode |-> <<>>, isLoading |-> TRUE, error |-> NoDiagramError,
     innerHTML |-> <<>>, renders |-> {}]

\* the effect up to await mermaid.render(diagramId, code)
effectRun(d) ==
    IF d.content = <<>> THEN [d EXCEPT !.effect = FALSE]
    ELSE LET c == generateMermaidCode(d.content, d.heading) IN
         [d EXCEPT !.effect = FALSE, !.isLoading = TRUE,
                   !.error = NoDiagramError, !.diagramCode = c,
                   !.renders = @ \cup {c}]

\* renderDiagram after await mermaid.render returned the svg of program c
renderResolved(ds, k, c) ==
    [ds EXCEPT ![k].innerHTML = c, ![k].isLoading = FALSE,
               ![k].renders = @ \ {c}]

\* variant: error and isLoading are shared by all components
renderRejectedShared(ds, k, c) ==
    [o \in DOMAIN ds |->
        [ds[o] EXCEPT !.error = RenderFailedMessage, !.isLoading = FALSE,
                      !.renders = IF o = k THEN @ \ {c} ELSE @]]

\* the catch block of renderDiagram
renderRejected(ds, k, c) ==
    [ds EXCEPT ![k].error = RenderFailedMessage, ![k].isLoading = FALSE,
               ![k].renders = @ \ {c}]

\* ---------------------------------------------------------------------
\* Inputs of the generator

\* every keyword of the five lists, each a content of its own
GenKeywords ==
    { <<"a", "g", "r", "e", "e", "m", "e", "n", "t">>, <<"p", "a", "r", "t", "n", "e", "r", "s", "h", "i", "p">>, <<"t", "r", "a", "d", "e">>, <<"c", "o", "l", "l", "a", "b", "o", "r", "a", "t", "i", "o", "n">>,
      <<"m", "a", "r", "k", "e", "t">>, <<"g", "r", "o", "w", "t", "h">>, <<"o", "p", "p", "o", "r", "t", "u", "n", "i", "t", "y">>, <<"e", "x", "p", "a", "n", "s", "i", "o", "n">>, <<"p", "o", "t", "e", "n", "t", "i", "a", "l">>,
      <<"c", "o", "m", "p", "e", "t", "i", "t", "i", "v", "e">>, <<"v", "e", "r", "s", "u", "s">>, <<"v", "s">>, <<"c", "o", "m", "p", "a", "r", "e", "d">>, <<"c", "o", "m", "p", "e", "t", "i", "t", "i", "o", "n">>,
      <<"s", "t", "e", "p">>, <<"p", "r", "o", "c", "e", "s", "s">>, <<"t", "i", "m", "e", "l", "i", "n", "e">>, <<"s", "e", "q", "u", "e", "n", "c", "e">>, <<"f", "i", "r", "s", "t">>, <<"t", "h", "e", "n">>,
      <<"f", "i", "n", "a", "l", "l", "y">> }

\* pieces a short content is made of: keywords of every list, two of them in
\* other letter case, separators, a word that is no keyword and a word in
\* quotes, brackets and white space
GenWords ==
    { <<"a", "g", "r", "e", "e", "m", "e", "n", "t">>, <<"T", "r", "a", "d", "e">>, <<"m", "a", "r", "k", "e", "t">>, <<"M", "A", "R", "K", "E", "T">>, <<"e", "x", "p", "a", "n", "s", "i", "o", "n">>,
      <<"p", "o", "t", "e", "n", "t", "i", "a", "l">>, <<"v", "s">>, <<"c", "o", "m", "p", "a", "r", "e", "d">>, <<"s", "t", "e", "p">>, <<"t", "h", "e", "n">>, <<".", " ">>, <<",", " ">>,
      <<"x">>, <<" ", "[", "\"", "q", "\"", ")", " ">> }

\* pieces a long content is made of: a plain sentence, a sentence with a
\* market keyword and a sentence of white space only
GenSentences == { <<"a", ".">>, <<" ", "m", "a", "r", "k", "e", "t", "!">>, <<" ", "?">> }

\* what a long content starts with
GenTriggers == { <<>>, <<"t", "r", "a", "d", "e", " ">>, <<"v", "s", " ">>, <<"t", "h", "e", "n", " ">> }

KeywordInputs ==
    { Flatten(ws) : ws \in UNION { [1..n -> GenWords] : n \in 0..MaxWords } }

SentenceInputs ==
    { t \o Flatten(ss) :
        t \in GenTriggers,
        ss \in UNION { [1..n -> GenSentences] : n \in 0..MaxSentences } }

\* a run of n letters that holds no keyword
Run(n) == [i \in 1..n |-> "b"]

\* contents with one fragment about as long as a mind map leaf may be, after
\* nothing, white space or a first sentence, and before nothing or white
\* space
LeafInputs ==
    { pre \o Run(n) \o post :
        pre \in { <<>>, <<" ">>, <<"a", ".", " ">> },
        n \in { MaxLeafLength - 10, MaxLeafLength - 1, MaxLeafLength,
                MaxLeafLength + 1, MaxLeafLength + 30 },
        post \in { <<>>, <<" ">> } }

GenInputs == GenKeywords \cup KeywordInputs \cup SentenceInputs \cup LeafInputs

Headings == { <<"N", "o", "t", "e", "s">>, <<" ", "(", "Q", ")", " ", "\"", "x", "\"", "[", "1", "]">> }

\* characters of the arguments of sanitizeText
SanChars == {"\"", "[", "]", "(", ")", " ", "a"}

SanInputs == UNION { [1..n -> SanChars] : n \in 0..MaxTextLen }

\* ---------------------------------------------------------------------
\* Inputs of the segmenter: documents of up to MaxLines lines

SegLines ==
    { <<>>,
      <<" ", "b", " ">>,
      <<"#", " ", "A">>,
      <<"#", "B">>,
      <<"#", "#", " ", " ", "C">>,
      <<" ", "#", "d">>,
      <<"#">> }

SegInputs ==
    { join(ls, <<"\n">>) :
        ls \in UNION { [1..n -> SegLines] : n \in 0..MaxLines } }

SegIdle ==
    /\ markdown = <<>>
    /\ segDone = FALSE
    /\ sections = <<>>
    /\ segRaised = FALSE

GenIdle ==
    /\ content = <<>>
    /\ heading = <<>>
    /\ genDone = FALSE
    /\ code = <<>>

SanIdle ==
    /\ text = <<>>
    /\ sanCalls = 0
    /\ sanOnce = <<>>
    /\ sanTwice = <<>>

TitleIdle ==
    /\ titleContent = <<>>
    /\ titleDone = FALSE
    /\ title = <<>>

StoreIdle ==
    /\ store = {}
    /\ usedIds = {}
    /\ clock = 0
    /\ dbReady = TRUE
    /\ call = [op |-> "none", arg |-> "", err |-> NoError]
    /\ result = Returned(<<>>)

DiagIdle ==
    /\ diagrams = <<>>
    /\ rejected = 0

DocIdle ==
    /\ document = NoDocument
    /\ docDone = FALSE

PdfIdle == pdf = PdfNotStarted

HomeIdle ==
    /\ user = NoUser
    /\ loading = TRUE
    /\ markdownContent = <<>>
    /\ animations = <<>>
    /\ showVisualization = FALSE
    /\ reports = <<>>
    /\ selectedReport = <<>>
    /\ reportTitle = <<>>
    /\ showReports = FALSE
    /\ isSaving = FALSE
    /\ isLoadingReports = FALSE
    /\ isDownloading = FALSE
    /\ loadError = NoLoadError
    /\ showToast = FALSE
    /\ toastMessage = ""
    /\ toastType = "success"
    /\ hideTimers = 0
    /\ clearTimers = 0
    /\ ownTimers = 0
    /\ tasks = <<>>
    /\ failure = "none"

InitSeg ==
    /\ markdown \in SegInputs
    /\ segDone = FALSE
    /\ sections = <<>>
    /\ segRaised = FALSE
    /\ GenIdle
    /\ SanIdle
    /\ TitleIdle
    /\ StoreIdle
    /\ HomeIdle
    /\ DocIdle
    /\ PdfIdle
    /\ DiagIdle

\* const foundSections = findHeadingsAndContent(markdown)
Segment ==
    /\ ~segDone
    /\ LET r == findHeadingsAndContent(markdown) IN
         /\ sections' = r.sections
         /\ segRaised' = r.raised
    /\ segDone' = TRUE
    /\ UNCHANGED <<markdown, genVars, sanVars, titleVars, storeVars, homeVars, diagVars, docVars,
                   pdfVars>>

NextSeg == Segment

SpecSeg == InitSeg /\ [][NextSeg]_vars

InitGen ==
    /\ content \in GenInputs
    /\ heading \in Headings
    /\ genDone = FALSE
    /\ code = <<>>
    /\ SegIdle
    /\ SanIdle
    /\ TitleIdle
    /\ StoreIdle
    /\ HomeIdle
    /\ DocIdle
    /\ PdfIdle
    /\ DiagIdle

\* const code = generateMermaidCode(content, heading)
Generate ==
    /\ ~genDone
    /\ code' = generateMermaidCode(content, heading)
    /\ genDone' = TRUE
    /\ UNCHANGED <<content, heading, segVars, sanVars, titleVars, storeVars, homeVars, diagVars, docVars,
                   pdfVars>>

NextGen == Generate

SpecGen == InitGen /\ [][NextGen]_vars

InitSan ==
    /\ text \in SanInputs
    /\ sanCalls = 0
    /\ sanOnce = <<>>
    /\ sanTwice = <<>>
    /\ SegIdle
    /\ GenIdle
    /\ TitleIdle
    /\ StoreIdle
    /\ HomeIdle
    /\ DocIdle
    /\ PdfIdle
    /\ DiagIdle

\* sanitizeText(text)
SanitizeText ==
    /\ sanCalls = 0
    /\ sanOnce' = sanitizeText(text)
    /\ sanCalls' = 1
    /\ UNCHANGED <<text, sanTwice, segVars, genVars, titleVars, storeVars, homeVars, diagVars, docVars,
                   pdfVars>>

\* sanitizeText applied to its own result
SanitizeAgain ==
    /\ sanCalls = 1
    /\ sanTwice' = sanitizeText(sanOnce)
    /\ sanCalls' = 2
    /\ UNCHANGED <<text, sanOnce, segVars, genVars, titleVars, storeVars, homeVars, diagVars, docVars,
                   pdfVars>>

NextSan == SanitizeText \/ SanitizeAgain

SpecSan == InitSan /\ [][NextSan]_vars

\* ---------------------------------------------------------------------
\* Inputs of generateTitleFromContent: documents of up to MaxTitleLines lines

TitleLines ==
    { <<>>,
      <<" ", " ">>,
      <<"#">>,
      <<"#", " ">>,
      <<"#", " ", "A", " ">>,
      <<"#", "#", " ", "S">>,
      <<"#", "B">>,
      <<" ", "c", " ">>,
      Run(MaxTitleLength),
      <<" ">> \o Run(MaxTitleLength + 1) \o <<" ">>,
      <<"#", " ">> \o Run(MaxTitleLength + 1) }

TitleInputs ==
    { join(ls, <<"\n">>) :
        ls \in UNION { [1..n -> TitleLines] : n \in 0..MaxTitleLines } }

InitTitle ==
    /\ titleContent \in TitleInputs
    /\ titleDone = FALSE
    /\ title = <<>>
    /\ SegIdle
    /\ GenIdle
    /\ SanIdle
    /\ StoreIdle
    /\ HomeIdle
    /\ DocIdle
    /\ PdfIdle
    /\ DiagIdle

\* const generatedTitle = generateTitleFromContent(markdownContent)
GenerateTitle ==
    /\ ~titleDone
    /\ title' = generateTitleFromContent(titleContent)
    /\ titleDone' = TRUE
    /\ UNCHANGED <<titleContent, segVars, genVars, sanVars, storeVars, homeVars, diagVars, docVars,
                   pdfVars>>

NextTitle == GenerateTitle

SpecTitle == InitTitle /\ [][NextTitle]_vars

\* ---------------------------------------------------------------------
\* Calls of the document store wrapper

Users == {"u1", "u2"}

ReportIds == 1..MaxReports

\* the reports handed to saveReport
StoreReports ==
    { [userId |-> u, title |-> <<"T">>, content |-> <<"b">>,
       animations |-> <<>>] : u \in Users }

InitStore ==
    /\ store = {}
    /\ usedIds = {}
    /\ clock = 0
    /\ dbReady \in BOOLEAN
    /\ call = [op |-> "none", arg |-> "", err |-> NoError]
    /\ result = Returned(<<>>)
    /\ SegIdle
    /\ GenIdle
    /\ SanIdle
    /\ TitleIdle
    /\ HomeIdle
    /\ DocIdle
    /\ PdfIdle
    /\ DiagIdle

\* saveReport(report): the store picks an unused id, new Date() is the
\* current time or a later one
SaveReportCall ==
    \E report \in StoreReports, err \in SdkErrorsPassed(dbReady) :
        /\ call' = [op |-> "saveReport", arg |-> report, err |-> err]
        /\ IF err = NoError
           THEN \E id \in ReportIds \ usedIds, now \in {clock, clock + 1} :
                    /\ store' = addDoc(store, report, id, now)
                    /\ usedIds' = usedIds \cup {id}
                    /\ clock' = now
                    /\ result' = Returned(id)
           ELSE /\ result' = Thrown(err, SdkMessage(err))
                /\ UNCHANGED <<store, usedIds, clock>>
        /\ UNCHANGED <<dbReady, segVars, genVars, sanVars, titleVars, homeVars, diagVars, docVars,
                   pdfVars>>

\* getReports(userId)
GetReportsCall ==
    \E userId \in Users, err \in SdkErrors(dbReady) :
        /\ call' = [op |-> "getReports", arg |-> userId, err |-> err]
        /\ result' = getReports(store, userId, dbReady, err)
        /\ UNCHANGED <<store, usedIds, clock, dbReady, segVars, genVars,
                       sanVars, titleVars, homeVars, diagVars, docVars,
                   pdfVars>>

\* getReport(reportId)
GetReportCall ==
    \E reportId \in ReportIds, err \in SdkErrorsPassed(dbReady) :
        /\ call' = [op |-> "getReport", arg |-> reportId, err |-> err]
        /\ result' = getReport(store, reportId, err)
        /\ UNCHANGED <<store, usedIds, clock, dbReady, segVars, genVars,
                       sanVars, titleVars, homeVars, diagVars, docVars,
                   pdfVars>>

\* deleteReport(reportId)
DeleteReportCall ==
    \E reportId \in ReportIds, err \in SdkErrorsPassed(dbReady) :
        /\ call' = [op |-> "deleteReport", arg |-> reportId, err |-> err]
        /\ IF err = NoError
           THEN /\ store' = deleteDoc(store, reportId)
                /\ result' = Returned(<<>>)
           ELSE /\ result' = Thrown(err, SdkMessage(err))
                /\ UNCHANGED store
        /\ UNCHANGED <<usedIds, clock, dbReady, segVars, genVars, sanVars,
                       titleVars, homeVars, diagVars, docVars,
                   pdfVars>>

NextStore ==
    SaveReportCall \/ GetReportsCall \/ GetReportCall \/ DeleteReportCall

SpecStore == InitStore /\ [][NextStore]_vars

\* ---------------------------------------------------------------------
\* The Home page as a state machine: one action per handler, effect, timer
\* and resumption of a handler after an awaited call

\* what the user types or pastes: a document whose heading is its second
\* line, and a heading line alone, whose generated title is blank
HomeDocs ==
    { <<"b", "\n", "#", " ", "A", "\n", "c">>,
      <<"#", " ", " ">> }

\* who signs in: the store is empty when the page is opened, so one user
\* stands for all
HomeUsers == {"u1"}

InitHome ==
    /\ HomeIdle
    /\ DocIdle
    /\ PdfIdle
    /\ DiagIdle
    /\ StoreIdle
    /\ SegIdle
    /\ GenIdle
    /\ SanIdle
    /\ TitleIdle

\* the id the store gives the next document and the time of the next
\* save: on this page two saves are never made at the same time, so the
\* list getReports returns does not depend on the ids, and one id stands
\* for all
NextId == CHOOSE id \in ReportIds \ usedIds :
              \A other \in ReportIds \ usedIds : id <= other

\* the page is rendered: !(loading || !user)
PageShown == ~loading /\ user # NoUser

\* the list of reports with its Load and Delete buttons is rendered
ListShown ==
    PageShown /\ showReports /\ ~isLoadingReports /\ loadError = NoLoadError

\* loadReports up to its await, called by a closure that holds the user u
\* and goes on as the handler kind
StartLoad(kind, u, reportId, selected) ==
    /\ isLoadingReports' = TRUE
    /\ loadError' = NoLoadError
    /\ tasks' = Append(tasks, Task(kind, "getReports", u, <<>>, reportId,
                                   selected))

NoToast == UNCHANGED toastVars

\* showToastMessage(message, type), called n times in a row with these
\* arguments the last time
ShowToastMessage(message, type, n) ==
    /\ toastMessage' = message
    /\ toastType' = type
    /\ showToast' = TRUE
    /\ hideTimers' = hideTimers + n
    /\ ownTimers' = n
    /\ UNCHANGED clearTimers

CanToast(n) == hideTimers + clearTimers + n <= MaxTimers

Untouched ==
    UNCHANGED <<pureVars, call, result, dbReady, diagVars, docVars, pdfVars>>

\* auth.onAuthStateChanged with a user, and the effect of lines 262-269
SignIn ==
    \E u \in HomeUsers :
        /\ loading /\ user = NoUser
        /\ user' = u
        /\ loading' = FALSE
        /\ StartLoad("load", u, 0, 0)
        /\ failure' = "none"
        /\ NoToast
        /\ Untouched
        /\ UNCHANGED <<editorVars, reports, showReports, isSaving,
                       isDownloading, store, usedIds, clock>>

\* the calls of the store that the handlers in ts are waiting for
StoreCalls(ts) ==
    SelectSeq(ts, LAMBDA t : t.pc \in {"saveReport", "deleteReport"})

\* the Sign Out button: auth.onAuthStateChanged with null; the effect of
\* lines 262-269 leaves the page, its state is gone, and of the handlers
\* that wait only the calls of the store have an effect any more
SignOut ==
    /\ PageShown
    /\ user' = NoUser
    /\ markdownContent' = <<>>
    /\ animations' = <<>>
    /\ showVisualization' = FALSE
    /\ reports' = <<>>
    /\ selectedReport' = <<>>
    /\ reportTitle' = <<>>
    /\ showReports' = FALSE
    /\ isSaving' = FALSE
    /\ isLoadingReports' = FALSE
    /\ isDownloading' = FALSE
    /\ loadError' = NoLoadError
    /\ showToast' = FALSE
    /\ toastMessage' = ""
    /\ toastType' = "success"
    /\ hideTimers' = 0
    /\ clearTimers' = 0
    /\ ownTimers' = 0
    /\ tasks' = StoreCalls(tasks)
    /\ failure' = "none"
    /\ Untouched
    /\ UNCHANGED <<loading, store, usedIds, clock>>

\* saveReport or deleteReport returns to a handler of the page that was
\* left
ResumeUnmounted ==
    \E i \in 1..Len(tasks), err \in SdkErrorsPassed(dbReady) :
        LET t == tasks[i] IN
        /\ ~loading /\ user = NoUser
        /\ IF err # NoError THEN UNCHANGED <<store, usedIds, clock>>
           ELSE IF t.pc = "saveReport"
           THEN /\ store' = addDoc(store, t.report[1], NextId, clock + 1)
                /\ usedIds' = usedIds \cup {NextId}
                /\ clock' = clock + 1
           ELSE /\ store' = deleteDoc(store, t.reportId)
                /\ UNCHANGED <<usedIds, clock>>
        /\ tasks' = RemoveAt(tasks, i)
        /\ UNCHANGED <<user, loading, editorVars, reports, showReports,
                       isSaving, isLoadingReports, isDownloading, loadError,
                       toastVars, failure>>
        /\ Untouched

\* the Show Reports / Hide Reports button, and the effect of lines 297-301
ToggleReports ==
    /\ PageShown
    /\ showReports' = ~showReports
    /\ IF ~showReports
       THEN /\ Len(tasks) < MaxTasks
            /\ StartLoad("load", user, 0, 0)
       ELSE UNCHANGED <<isLoadingReports, loadError, tasks>>
    /\ failure' = "none"
    /\ NoToast
    /\ Untouched
    /\ UNCHANGED <<user, loading, editorVars, reports, isSaving,
                   isDownloading, store, usedIds, clock>>

\* the Try Again button
RetryLoad ==
    /\ PageShown /\ showReports /\ ~isLoadingReports
    /\ loadError # NoLoadError
    /\ Len(tasks) < MaxTasks
    /\ StartLoad("load", user, 0, 0)
    /\ failure' = "none"
    /\ NoToast
    /\ Untouched
    /\ UNCHANGED <<user, loading, editorVars, reports, showReports, isSaving,
                   isDownloading, store, usedIds, clock>>

\* handleLoadReport(report)
HandleLoadReport ==
    \E k \in 1..Len(reports) :
        /\ ListShown
        /\ markdownContent' = reports[k].content
        /\ animations' = reports[k].animations
        /\ showVisualization' = TRUE
        /\ selectedReport' = <<reports[k]>>
        /\ reportTitle' = reports[k].title
        /\ failure' = "none"
        /\ NoToast
        /\ Untouched
        /\ UNCHANGED <<user, loading, reports, showReports, isSaving,
                       isLoadingReports, isDownloading, loadError, tasks,
                       store, usedIds, clock>>

\* handleDeleteReport(reportId) up to its await
HandleDeleteReport ==
    \E k \in 1..Len(reports) :
        /\ ListShown
        /\ Len(tasks) < MaxTasks
        /\ tasks' = Append(tasks,
               Task("delete", "deleteReport", user, <<>>, reports[k].id,
                    IF selectedReport = <<>> THEN 0 ELSE selectedReport[1].id))
        /\ failure' = "none"
        /\ NoToast
        /\ Untouched
        /\ UNCHANGED <<user, loading, editorVars, reports, showReports,
                       isSaving, isLoadingReports, isDownloading, loadError,
                       store, usedIds, clock>>

\* handleContentChange: the textarea is read-only while the visualization
\* is shown
HandleContentChange ==
    \E value \in HomeDocs \cup {<<>>} :
        /\ PageShown /\ ~showVisualization
        /\ markdownContent' = value
        /\ showVisualization' = FALSE
        /\ failure' = "none"
        /\ NoToast
        /\ Untouched
        /\ UNCHANGED <<user, loading, animations, selectedReport, reportTitle,
                       reports, showReports, isSaving, isLoadingReports,
                       isDownloading, loadError, tasks, store, usedIds, clock>>

\* variant: a paste leaves the visualization shown
HandlePasteKeepsVisualization ==
    \E pastedText \in HomeDocs :
        /\ PageShown
        /\ markdownContent' = pastedText
        /\ failure' = "none"
        /\ NoToast
        /\ Untouched
        /\ UNCHANGED <<user, loading, animations, showVisualization,
                       selectedReport, reportTitle, reports, showReports,
                       isSaving, isLoadingReports, isDownloading, loadError,
                       tasks, store, usedIds, clock>>

\* handlePaste: the paste event also reaches a read-only textarea
HandlePaste ==
    \E pastedText \in HomeDocs :
        /\ PageShown
        /\ markdownContent' = pastedText
        /\ showVisualization' = FALSE
        /\ failure' = "none"
        /\ NoToast
        /\ Untouched
        /\ UNCHANGED <<user, loading, animations, selectedReport, reportTitle,
                       reports, showReports, isSaving, isLoadingReports,
                       isDownloading, loadError, tasks, store, usedIds, clock>>

\* handleSubmit (the Visualize button)
HandleSubmit ==
    /\ PageShown /\ ~showVisualization
    /\ trim(markdownContent) # <<>>
    /\ LET found == findHeadingsAndContent(markdownContent) IN
         IF found.raised
         THEN UNCHANGED <<animations, showVisualization, reportTitle>>
         ELSE /\ animations' = found.sections
              /\ showVisualization' = TRUE
              /\ reportTitle' = generateTitleFromContent(markdownContent)
    /\ failure' = "none"
    /\ NoToast
    /\ Untouched
    /\ UNCHANGED <<user, loading, markdownContent, selectedReport, reports,
                   showReports, isSaving, isLoadingReports, isDownloading,
                   loadError, tasks, store, usedIds, clock>>

\* handleStartNew
HandleStartNew ==
    /\ PageShown /\ showVisualization
    /\ markdownContent' = <<>>
    /\ showVisualization' = FALSE
    /\ animations' = <<>>
    /\ reportTitle' = <<>>
    /\ selectedReport' = <<>>
    /\ failure' = "none"
    /\ NoToast
    /\ Untouched
    /\ UNCHANGED <<user, loading, reports, showReports, isSaving,
                   isLoadingReports, isDownloading, loadError, tasks, store,
                   usedIds, clock>>

SavesWaiting ==
    Cardinality({ i \in 1..Len(tasks) : tasks[i].pc = "saveReport" })

\* handleSaveReport up to its await
HandleSaveReport ==
    /\ PageShown /\ showVisualization /\ ~isSaving
    /\ CanSave(user, reportTitle)
    /\ Len(tasks) < MaxTasks
    /\ Cardinality(usedIds) + SavesWaiting < MaxSaves
    /\ isSaving' = TRUE
    /\ tasks' = Append(tasks,
           Task("save", "saveReport", user,
                <<NewReport(user, reportTitle, markdownContent, animations)>>,
                0, 0))
    /\ failure' = "none"
    /\ NoToast
    /\ Untouched
    /\ UNCHANGED <<user, loading, editorVars, reports, showReports,
                   isLoadingReports, isDownloading, loadError, store, usedIds,
                   clock>>

\* handleDownloadPDF up to its first await
HandleDownloadPDF ==
    /\ PageShown /\ showVisualization /\ ~isDownloading
    /\ Len(tasks) < MaxTasks
    /\ isDownloading' = TRUE
    /\ tasks' = Append(tasks, Task("pdf", "pdf", user, <<>>, 0, 0))
    /\ failure' = "none"
    /\ NoToast
    /\ Untouched
    /\ UNCHANGED <<user, loading, editorVars, reports, showReports, isSaving,
                   isLoadingReports, loadError, store, usedIds, clock>>

\* handleSaveReport after await saveReport(report): on success it calls
\* loadReports, on failure it runs its catch and finally blocks
ResumeSave ==
    \E i \in 1..Len(tasks), err \in SdkErrorsPassed(dbReady) :
        LET t == tasks[i] IN
        /\ PageShown
        /\ t.pc = "saveReport"
        /\ IF err = NoError
           THEN LET id == NextId  now == clock + 1 IN
                    /\ store' = addDoc(store, t.report[1], id, now)
                    /\ usedIds' = usedIds \cup {id}
                    /\ clock' = now
                    /\ isLoadingReports' = TRUE
                    /\ loadError' = NoLoadError
                    /\ tasks' = [tasks EXCEPT ![i].pc = "getReports"]
                    /\ failure' = "none"
                    /\ NoToast
                    /\ UNCHANGED isSaving
           ELSE /\ CanToast(1)
                /\ ShowToastMessage(SaveFailedMessage, "error", 1)
                /\ isSaving' = FALSE
                /\ tasks' = RemoveAt(tasks, i)
                /\ failure' = "save"
                /\ UNCHANGED <<store, usedIds, clock, isLoadingReports,
                               loadError>>
        /\ Untouched
        /\ UNCHANGED <<user, loading, editorVars, reports, showReports,
                       isDownloading>>

\* handleDeleteReport after await deleteReport(reportId): on success it
\* calls loadReports, on failure its catch block logs the error
ResumeDelete ==
    \E i \in 1..Len(tasks), err \in SdkErrorsPassed(dbReady) :
        LET t == tasks[i] IN
        /\ PageShown
        /\ t.pc = "deleteReport"
        /\ IF err = NoError
           THEN /\ store' = deleteDoc(store, t.reportId)
                /\ isLoadingReports' = TRUE
                /\ loadError' = NoLoadError
                /\ tasks' = [tasks EXCEPT ![i].pc = "getReports"]
                /\ failure' = "none"
           ELSE /\ tasks' = RemoveAt(tasks, i)
                /\ failure' = "delete"
                /\ UNCHANGED <<store, isLoadingReports, loadError>>
        /\ NoToast
        /\ Untouched
        /\ UNCHANGED <<user, loading, editorVars, reports, showReports,
                       isSaving, isDownloading, usedIds, clock>>

\* the store answers getReports(user.uid): the query is evaluated on the
\* documents of that moment, and the answer is on its way to the page
GetReportsAnswered ==
    \E i \in 1..Len(tasks), err \in SdkErrorsPassed(dbReady) :
        /\ PageShown
        /\ tasks[i].pc = "getReports"
        /\ tasks' = [tasks EXCEPT
                        ![i].pc = "gotReports",
                        ![i].response =
                            <<getReports(store, tasks[i].user, dbReady, err)>>]
        /\ failure' = "none"
        /\ NoToast
        /\ Untouched
        /\ UNCHANGED <<user, loading, editorVars, reports, showReports,
                       isSaving, isLoadingReports, isDownloading, loadError,
                       store, usedIds, clock>>

\* loadReports after await getReports(user.uid), and then the handler that
\* called it: handleSaveReport shows its toast and clears isSaving,
\* handleDeleteReport resets the editor if the report it deleted is the one
\* its closure holds as selected
ResumeLoad ==
    \E i \in 1..Len(tasks) :
        LET t == tasks[i]
            r == IF t.response = <<>> THEN Returned(<<>>) ELSE t.response[1]
            toasts == (IF r.ok THEN 0 ELSE 1) + (IF t.kind = "save" THEN 1 ELSE 0)
        IN
        /\ PageShown
        /\ t.pc = "gotReports"
        /\ CanToast(toasts)
        /\ reports' = IF r.ok THEN r.value ELSE reports
        /\ loadError' = IF ~r.ok THEN r.message
                        ELSE IF Len(r.value) = 0 THEN NoReportsMessage
                        ELSE loadError
        /\ isLoadingReports' = FALSE
        /\ IF t.kind = "save"
           THEN /\ ShowToastMessage(SavedMessage, "success", toasts)
                /\ isSaving' = FALSE
           ELSE /\ IF r.ok THEN NoToast
                   ELSE ShowToastMessage(r.message, "error", 1)
                /\ UNCHANGED isSaving
        /\ IF t.kind = "delete" /\ t.selected = t.reportId
           THEN /\ selectedReport' = <<>>
                /\ markdownContent' = <<>>
                /\ animations' = <<>>
                /\ showVisualization' = FALSE
                /\ reportTitle' = <<>>
           ELSE UNCHANGED editorVars
        /\ tasks' = RemoveAt(tasks, i)
        /\ failure' = IF r.ok THEN "none" ELSE "load"
        /\ Untouched
        /\ UNCHANGED <<user, loading, showReports, isDownloading, store,
                       usedIds, clock>>

\* handleDownloadPDF after its awaits: the document is saved (a diagram
\* whose image does not load is left out, lines 672-674), or jsPDF or the
\* canvas raise and the outer catch block runs
ResumePdf ==
    \E i \in 1..Len(tasks), ok \in BOOLEAN :
        /\ PageShown
        /\ tasks[i].pc = "pdf"
        /\ CanToast(1)
        /\ IF ok THEN ShowToastMessage(PdfSavedMessage, "success", 1)
           ELSE ShowToastMessage(PdfFailedMessage, "error", 1)
        /\ isDownloading' = FALSE
        /\ tasks' = RemoveAt(tasks, i)
        /\ failure' = IF ok THEN "none" ELSE "pdf"
        /\ Untouched
        /\ UNCHANGED <<user, loading, editorVars, reports, showReports,
                       isSaving, isLoadingReports, loadError, store, usedIds,
                       clock>>

\* the timer of showToastMessage, 3 seconds after the call: the timers
\* fire in the order of the calls, the oldest first
HideToast ==
    /\ hideTimers > 0
    /\ showToast' = FALSE
    /\ hideTimers' = hideTimers - 1
    /\ ownTimers' = IF hideTimers <= ownTimers THEN ownTimers - 1
                    ELSE ownTimers
    /\ clearTimers' = clearTimers + 1
    /\ failure' = "none"
    /\ Untouched
    /\ UNCHANGED <<toastMessage, toastType, user, loading, editorVars,
                   reports, showReports, isSaving, isLoadingReports,
                   isDownloading, loadError, tasks, store, usedIds, clock>>

\* the inner timer, 300 ms after the toast was hidden
ClearToast ==
    /\ clearTimers > 0
    /\ toastMessage' = ""
    /\ clearTimers' = clearTimers - 1
    /\ failure' = "none"
    /\ Untouched
    /\ UNCHANGED <<showToast, toastType, hideTimers, ownTimers, user, loading,
                   editorVars, reports, showReports, isSaving,
                   isLoadingReports, isDownloading, loadError, tasks, store,
                   usedIds, clock>>

NextHome ==
    \/ SignIn
    \/ SignOut
    \/ ToggleReports
    \/ RetryLoad
    \/ HandleLoadReport
    \/ HandleDeleteReport
    \/ HandleContentChange
    \/ HandlePaste
    \/ HandleSubmit
    \/ HandleStartNew
    \/ HandleSaveReport
    \/ HandleDownloadPDF
    \/ ResumeSave
    \/ ResumeDelete
    \/ GetReportsAnswered
    \/ ResumeLoad
    \/ ResumePdf
    \/ ResumeUnmounted
    \/ HideToast
    \/ ClearToast

SpecHome == InitHome /\ [][NextHome]_vars

\* ---------------------------------------------------------------------
\* The document as it is rendered after the Visualize button

\* the lines of the documents that are rendered
DocLineShapes ==
    { <<>>,
      <<" ", "b", " ">>,
      <<"#", " ", "A">>,
      <<"#", "B">> }

DocInputs ==
    { join(ls, <<"\n">>) :
        ls \in UNION { [1..n -> DocLineShapes] : n \in 0..MaxDocLines } }

\* the page of a signed-in user who has typed a document
InitDoc ==
    /\ user \in HomeUsers
    /\ loading = FALSE
    /\ markdownContent \in DocInputs
    /\ animations = <<>>
    /\ showVisualization = FALSE
    /\ reports = <<>>
    /\ selectedReport = <<>>
    /\ reportTitle = <<>>
    /\ showReports = FALSE
    /\ isSaving = FALSE
    /\ isLoadingReports = FALSE
    /\ isDownloading = FALSE
    /\ loadError = NoLoadError
    /\ showToast = FALSE
    /\ toastMessage = ""
    /\ toastType = "success"
    /\ hideTimers = 0
    /\ clearTimers = 0
    /\ ownTimers = 0
    /\ tasks = <<>>
    /\ failure = "none"
    /\ DocIdle
    /\ PdfIdle
    /\ DiagIdle
    /\ StoreIdle
    /\ SegIdle
    /\ GenIdle
    /\ SanIdle
    /\ TitleIdle

\* the page is rendered: {renderDocument()}
RenderDocument ==
    /\ PageShown
    /\ ~docDone
    /\ document' =
           renderDocument(markdownContent, animations, showVisualization)
    /\ docDone' = TRUE
    /\ UNCHANGED <<pureVars, storeVars, homeVars, diagVars, pdfVars>>

NextDoc == HandleSubmit \/ RenderDocument

SpecDoc == InitDoc /\ [][NextDoc]_vars

\* ---------------------------------------------------------------------
\* The diagrams of a document: one MermaidDiagram per section

\* the props of a diagram: content and heading of its section; the
\* content of a section may be empty
DiagramProps ==
    { [content |-> c, heading |-> <<"N", "o", "t", "e", "s">>] :
        c \in { <<>>, <<"T", "r", "a", "d", "e", ",", " ", "b">> } }

InitDiagram ==
    /\ diagrams \in
           UNION { [1..n -> { Mounted(p) : p \in DiagramProps }] :
                     n \in 1..MaxDiagrams }
    /\ rejected = 0
    /\ SegIdle
    /\ GenIdle
    /\ SanIdle
    /\ TitleIdle
    /\ StoreIdle
    /\ HomeIdle
    /\ DocIdle
    /\ PdfIdle

\* the effect of lines 66-93 runs for component k
RunEffect ==
    \E k \in 1..Len(diagrams) :
        /\ diagrams[k].effect
        /\ diagrams' = [diagrams EXCEPT ![k] = effectRun(diagrams[k])]
        /\ rejected' = 0
        /\ UNCHANGED <<pureVars, storeVars, homeVars, docVars, pdfVars>>

\* the section of component k changes while the document stays shown
\* (handleLoadReport): new props, and the effect is due again
PropsChanged ==
    \E k \in 1..Len(diagrams), p \in DiagramProps :
        /\ <<p.content, p.heading>> #
               <<diagrams[k].content, diagrams[k].heading>>
        /\ diagrams' = [diagrams EXCEPT ![k].content = p.content,
                                        ![k].heading = p.heading,
                                        ![k].effect = TRUE]
        /\ rejected' = 0
        /\ UNCHANGED <<pureVars, storeVars, homeVars, docVars, pdfVars>>

\* mermaid.render returns the svg to component k
RenderResolved ==
    \E k \in 1..Len(diagrams) : \E c \in diagrams[k].renders :
        /\ diagrams' = renderResolved(diagrams, k, c)
        /\ rejected' = 0
        /\ UNCHANGED <<pureVars, storeVars, homeVars, docVars, pdfVars>>

\* mermaid.render fails for component k
RenderRejected ==
    \E k \in 1..Len(diagrams) : \E c \in diagrams[k].renders :
        /\ diagrams' = renderRejected(diagrams, k, c)
        /\ rejected' = k
        /\ UNCHANGED <<pureVars, storeVars, homeVars, docVars, pdfVars>>

NextDiagram == RunEffect \/ PropsChanged \/ RenderResolved \/ RenderRejected

SpecDiagram == InitDiagram /\ [][NextDiagram]_vars

\* ---------------------------------------------------------------------
\* One diagram whose section changes while it is rendered

\* the props of the sections that follow one another in a component: two
\* contents, and for one of them two headings
SectionProps ==
    { [content |-> <<"T", "r", "a", "d", "e", ",", " ", "b">>,
       heading |-> <<"N", "o", "t", "e", "s">>],
      [content |-> <<"b">>, heading |-> <<"N", "o", "t", "e", "s">>],
      [content |-> <<"b">>, heading |-> <<"A">>] }

InitRerender ==
    /\ diagrams \in { <<Mounted(p)>> : p \in SectionProps }
    /\ rejected = 0
    /\ SegIdle
    /\ GenIdle
    /\ SanIdle
    /\ TitleIdle
    /\ StoreIdle
    /\ HomeIdle
    /\ DocIdle
    /\ PdfIdle

\* another report is loaded while the document is shown: the component
\* with the key section-k gets the section of the other report
SectionChanged ==
    \E k \in 1..Len(diagrams), p \in SectionProps :
        /\ <<p.content, p.heading>> #
               <<diagrams[k].content, diagrams[k].heading>>
        /\ diagrams' = [diagrams EXCEPT ![k].content = p.content,
                                        ![k].heading = p.heading,
                                        ![k].effect = TRUE]
        /\ rejected' = 0
        /\ UNCHANGED <<pureVars, storeVars, homeVars, docVars, pdfVars>>

NextRerender ==
    RunEffect \/ SectionChanged \/ RenderResolved \/ RenderRejected

SpecRerender == InitRerender /\ [][NextRerender]_vars

\* ---------------------------------------------------------------------
\* The PDF export of a visualized document

\* the visualized documents that are exported
PdfDocs ==
    { <<"#", " ", "A", "\n", "b", "\n", "#", " ", "B", "\n", "c">>,
      <<"b", "\n", "#", " ", "A", "\n", "\n", "b", "\n", "#", "B">>,
      <<"#", "A", "\n", "b", "\n", "#", "B", "\n", "c", "\n", "#", "C",
        "\n", "d">> }

\* the page of a signed-in user after handleSubmit: one MermaidDiagram is
\* mounted for each section
InitPdf ==
    /\ user \in HomeUsers
    /\ loading = FALSE
    /\ markdownContent \in PdfDocs
    /\ animations = findHeadingsAndContent(markdownContent).sections
    /\ showVisualization = TRUE
    /\ reportTitle = generateTitleFromContent(markdownContent)
    /\ diagrams = [k \in 1..Len(animations) |->
                      Mounted([content |-> animations[k].content,
                               heading |-> animations[k].heading])]
    /\ rejected = 0
    /\ reports = <<>>
    /\ selectedReport = <<>>
    /\ showReports = FALSE
    /\ isSaving = FALSE
    /\ isLoadingReports = FALSE
    /\ isDownloading = FALSE
    /\ loadError = NoLoadError
    /\ showToast = FALSE
    /\ toastMessage = ""
    /\ toastType = "success"
    /\ hideTimers = 0
    /\ clearTimers = 0
    /\ ownTimers = 0
    /\ tasks = <<>>
    /\ failure = "none"
    /\ DocIdle
    /\ PdfIdle
    /\ StoreIdle
    /\ SegIdle
    /\ GenIdle
    /\ SanIdle
    /\ TitleIdle

\* handleDownloadPDF goes on from the locals p: it waits for the next image,
\* or it saves the document, shows its toast and clears isDownloading
PdfGoesOn(p) ==
    LET q == pdfLines(p, split(markdownContent, {"\n"}), animations) IN
    IF q.pc = "image"
    THEN /\ pdf' = q
         /\ isDownloading' = TRUE
         /\ failure' = "none"
         /\ NoToast
    ELSE /\ pdf' = [q EXCEPT !.pc = "saved"]
         /\ isDownloading' = FALSE
         /\ failure' = "none"
         /\ ShowToastMessage(PdfSavedMessage, "success", 1)

PdfFrame ==
    UNCHANGED <<pureVars, storeVars, diagVars, docVars, user, loading,
                editorVars, reports, showReports, isSaving, isLoadingReports,
                loadError, tasks>>

\* the Download PDF button: handleDownloadPDF up to its first await; when
\* new jsPDF raises, the outer catch block runs
DownloadPDF ==
    \E ok \in BOOLEAN :
        /\ PageShown /\ showVisualization /\ ~isDownloading
        /\ pdf.pc = "idle"
        /\ IF ok
           THEN PdfGoesOn([pdf EXCEPT !.diagrams = collectDiagrams(diagrams, 1)])
           ELSE /\ pdf' = [pdf EXCEPT !.pc = "failed"]
                /\ isDownloading' = FALSE
                /\ failure' = "pdf"
                /\ ShowToastMessage(PdfFailedMessage, "error", 1)
        /\ PdfFrame

\* the image of diagrams[diagramIndex] has loaded
ImageLoaded ==
    /\ pdf.pc = "image"
    /\ PdfGoesOn(imageLoaded(pdf))
    /\ PdfFrame

\* the image of diagrams[diagramIndex] does not load
ImageFailed ==
    /\ pdf.pc = "image"
    /\ PdfGoesOn(imageFailed(pdf))
    /\ PdfFrame

NextPdf ==
    \/ RunEffect
    \/ RenderResolved
    \/ RenderRejected
    \/ DownloadPDF
    \/ ImageLoaded
    \/ ImageFailed

SpecPdf == InitPdf /\ [][NextPdf]_vars

\* the lines of the segmented document
Lines == split(markdown, {"\n"})

\* ---------------------------------------------------------------------
\* Properties of findHeadingsAndContent

\* zero-based indices of the heading lines of the document
HeadingIndices == { i \in 0..(Len(Lines) - 1) : Lines[i + 1] # <<>> /\ Lines[i + 1][1] = "#" }

\* zero-based index of the first heading line after line i, or the number of
\* lines when there is none
NextHeadingAfter(i) ==
    IF \E j \in HeadingIndices : j > i
    THEN CHOOSE j \in HeadingIndices :
             j > i /\ \A k \in HeadingIndices : k > i => j <= k
    ELSE Len(Lines)

\* the lines strictly between line i and line j, joined and trimmed
TextBetween(i, j) == trim(join(SubSeq(Lines, i + 2, j), <<"\n">>))

\* C1: every Section returned has non-empty trimmed content; a heading whose
\* section closes with empty content (the last heading included) gives none.
C1_NoEmptySection ==
    segDone => \A i \in 1..Len(sections) : trim(sections[i].content) # <<>>

\* C2: the lineIndex values are strictly increasing in list order and each
\* is the zero-based index of a line of the document that starts with '#'.
C2_LineIndexIncreasing ==
    segDone =>
        /\ \A i \in 1..(Len(sections) - 1) :
               sections[i].lineIndex < sections[i + 1].lineIndex
        /\ \A i \in 1..Len(sections) : sections[i].lineIndex \in HeadingIndices

C2_Witness ==
    /\ segDone
    /\ Len(sections) >= 2
    /\ \E i \in 0..(Len(Lines) - 1) :
           /\ i \notin HeadingIndices
           /\ \E j \in 1..Len(Lines[i + 1]) : Lines[i + 1][j] = "#"

\* C3: the content of a Section is the text of the lines strictly between its
\* heading line and the next heading line (or the end of the document),
\* joined with newlines and trimmed; no heading line is part of it.
C3_ContentBetweenHeadings ==
    segDone =>
        \A i \in 1..Len(sections) :
            LET s == sections[i] IN
            /\ s.lineIndex \in 0..(Len(Lines) - 1)
            /\ s.content = TextBetween(s.lineIndex, NextHeadingAfter(s.lineIndex))

C3_Witness ==
    /\ segDone
    /\ Len(sections) >= 2
    /\ \E i \in 1..Len(sections) :
           \E j \in 1..Len(sections[i].content) : sections[i].content[j] = "\n"

\* the line without its leading run of '#' and the whitespace after the run
WithoutHashRun(line) == trimStart(SubSeq(line, HashRun(line) + 1, Len(line)))

\* C4: the heading of a Section is its heading line with the leading run of
\* '#' and the whitespace following the run removed, and so never starts
\* with '#', also when no space follows the run.
C4_HeadingStripped ==
    segDone =>
        \A i \in 1..Len(sections) :
            LET s == sections[i] IN
            /\ s.heading = WithoutHashRun(Lines[s.lineIndex + 1])
            /\ (s.heading = <<>> \/ s.heading[1] # "#")

\* the result for the document without the lines before line k, with the
\* line indices counted in the whole document
SectionsFromLine(k) ==
    LET r == findHeadingsAndContent(
                 join(SubSeq(Lines, k + 1, Len(Lines)), <<"\n">>)).sections
    IN  [i \in 1..Len(r) |-> [r[i] EXCEPT !.lineIndex = @ + k]]

\* C5: findHeadingsAndContent returns for every input; without a heading
\* line the result is empty; the text before the first heading line is no
\* Section and changes nothing in the Sections returned.
C5_Total ==
    segDone =>
        /\ ~segRaised
        /\ (HeadingIndices = {} => sections = <<>>)
        /\ (HeadingIndices # {} =>
               /\ \A i \in 1..Len(sections) :
                      sections[i].lineIndex >= NextHeadingAfter(-1)
               /\ sections = SectionsFromLine(NextHeadingAfter(-1)))

C5_Witness ==
    /\ segDone
    /\ \E i \in 1..Len(sections) : sections[i].content # <<>>
    /\ NextHeadingAfter(-1) > 0
    /\ TextBetween(-1, NextHeadingAfter(-1)) # <<>>

\* ---------------------------------------------------------------------
\* Properties of generateMermaidCode

\* the templates of the lines that carry a child node
ChildTemplates ==
    { "    A --> B${index}[\"${entity}\"]\n",
      "    M --> O${index}[\"${opp}\"]\n",
      "    A${index}[\"${aspect}\"]\n",
      "    S${index}[\"${step}\"]\n",
      "    ${nodeText}\n" }

IsChildLine(l) == l.tpl \in ChildTemplates

\* the labels of the child nodes of a program, in the order of its lines
Children(p) ==
    LET ls == SelectSeq(p, IsChildLine) IN [k \in 1..Len(ls) |-> ls[k].text]

IsPlaceholder(p) ==
    Len(p) = 1 /\ p[1].tpl = "graph TD\n    A[\"No content to visualize\"]"

\* the diagram category a program belongs to, read from its lines
Category(p) ==
    IF p = <<>> THEN "none"
    ELSE IF IsPlaceholder(p) THEN "default"
    ELSE IF p[1].tpl = "graph LR\n" THEN "partnership"
    ELSE IF p[1].tpl = "graph TB\n" THEN "competitive"
    ELSE IF p[1].tpl = "mindmap\n" THEN "default"
    ELSE IF Len(p) >= 2 /\ p[2].tpl = "    M((\"${sanitizeText(heading)}\"))\n"
         THEN "market"
    ELSE "sequential"

\* the keyword sets as the classification table states them
TablePartnership ==
    { <<"a", "g", "r", "e", "e", "m", "e", "n", "t">>, <<"p", "a", "r", "t", "n", "e", "r", "s", "h", "i", "p">>, <<"t", "r", "a", "d", "e">>, <<"c", "o", "l", "l", "a", "b", "o", "r", "a", "t", "i", "o", "n">> }

TableMarket == { <<"m", "a", "r", "k", "e", "t">>, <<"g", "r", "o", "w", "t", "h">>, <<"o", "p", "p", "o", "r", "t", "u", "n", "i", "t", "y">>, <<"e", "x", "p", "a", "n", "s", "i", "o", "n">> }

TableCompetitive ==
    { <<"c", "o", "m", "p", "e", "t", "i", "t", "i", "v", "e">>, <<"v", "e", "r", "s", "u", "s">>, <<"v", "s">>, <<"c", "o", "m", "p", "a", "r", "e", "d">>, <<"c", "o", "m", "p", "e", "t", "i", "t", "i", "o", "n">> }

TableSequential ==
    { <<"s", "t", "e", "p">>, <<"p", "r", "o", "c", "e", "s", "s">>, <<"t", "i", "m", "e", "l", "i", "n", "e">>, <<"s", "e", "q", "u", "e", "n", "c", "e">>, <<"f", "i", "r", "s", "t">>, <<"t", "h", "e", "n">>,
      <<"f", "i", "n", "a", "l", "l", "y">> }

\* case-insensitive substring match against a keyword set
Mentions(t, kws) == \E kw \in kws : includes(toLowerCase(t), kw)

TableCategory(c) ==
    IF Mentions(c, TablePartnership) THEN "partnership"
    ELSE IF Mentions(c, TableMarket) THEN "market"
    ELSE IF Mentions(c, TableCompetitive) THEN "competitive"
    ELSE IF Mentions(c, TableSequential) THEN "sequential"
    ELSE "default"

\* C6: the category is the first one, in the order partnership, market,
\* competitive, sequential, default, whose keyword set the content matches
\* by case-insensitive substring; a content with a partnership and a market
\* keyword gives the partnership diagram.
C6_ClassificationPriority ==
    genDone => Category(code) = TableCategory(content)

C6_Witness ==
    /\ genDone
    /\ Mentions(content, TablePartnership)
    /\ Mentions(content, TableMarket)
    /\ content # toLowerCase(content)
    /\ Category(code) = "partnership"

\* C7: whenever the selected branch extracts no usable fragment, in any of
\* the five branches, the result is the single placeholder node program.
C7_PlaceholderWhenNoFragments ==
    genDone => (Children(code) = <<>> => IsPlaceholder(code))

\* the sentences of a content that are not empty and mention a keyword of
\* the market set
MarketSentence(s) == Len(trim(s)) > 0 /\ Mentions(s, TableMarket)

FirstUpTo(seq, n) == SubSeq(seq, 1, IF Len(seq) < n THEN Len(seq) ELSE n)

\* C8: in the market branch the child nodes are exactly the first (up to 4)
\* non-empty sentences of the content, split on '.', '!' and '?', that
\* contain one of the keywords market, growth, opportunity, expansion.
C8_MarketChildren ==
    (genDone /\ Category(code) = "market") =>
        LET qs == FirstUpTo(SelectSeq(split(content, {".", "!", "?"}),
                                      MarketSentence), 4)
        IN  Children(code) = [k \in 1..Len(qs) |-> sanitizeText(trim(qs[k]))]

\* all the fragments of a content that qualify as children in a category, as
\* they are labelled, in source order
Qualifying(c, cat) ==
    LET sentences == split(c, {".", "!", "?"}) IN
    IF cat = "partnership"
    THEN Labels(SelectSeq(split(c, {",", ".", ";"}), NonEmpty))
    ELSE IF cat = "market" THEN Labels(SelectSeq(sentences, IsOpportunity))
    ELSE IF cat \in {"competitive", "sequential"}
         THEN Labels(SelectSeq(sentences, NonEmpty))
    ELSE LET ps == SelectSeq(sentences, NonEmpty) IN
         [k \in 1..Len(ps) |-> nodeText(ps[k])]

\* the cap on the number of children of a category
Cap(cat) ==
    IF cat \in {"partnership", "market"} THEN 4
    ELSE IF cat = "competitive" THEN 3
    ELSE 5

\* C9: at most 4, 4, 3, 5 and 5 children are emitted in the partnership,
\* market, competitive, sequential and default branch, and they are the
\* first qualifying fragments in source order: none is skipped.
C9_HardTruncation ==
    genDone =>
        LET cat == Category(code)
            q   == Qualifying(content, cat)
            ch  == Children(code)
        IN  /\ Len(ch) <= Cap(cat)
            /\ Len(ch) = (IF Len(q) < Cap(cat) THEN Len(q) ELSE Cap(cat))
            /\ \A k \in 1..Len(ch) : ch[k] = q[k]

C9_Witness ==
    /\ genDone
    /\ Category(code) = "default"
    /\ Len(Qualifying(content, "default")) > 5
    /\ Len(Children(code)) = 5

\* the templates of the lines that carry the root label
RootTemplates ==
    { "    A((\"${sanitizeText(heading)}\"))\n",
      "    M((\"${sanitizeText(heading)}\"))\n",
      "  root((${sanitizeText(heading)}))\n" }

Delimiters == {"\"", "[", "]", "(", ")"}

\* a label free of the delimiters of the diagram language and of white space
\* around it
CleanLabel(s) ==
    /\ \A i \in 1..Len(s) : s[i] \notin Delimiters
    /\ (s = <<>> \/ (s[1] \notin WhiteSpace /\ s[Len(s)] \notin WhiteSpace))

\* C11: every label embedded in a returned program, the root label taken
\* from the heading and every child label taken from the content, holds no
\* double quote, bracket or parenthesis and no surrounding white space.
C11_LabelsSanitized ==
    genDone =>
        \A k \in 1..Len(code) :
            code[k].tpl \in (RootTemplates \cup ChildTemplates)
                => CleanLabel(code[k].text)

C11_Witness ==
    /\ genDone
    /\ \E i \in 1..Len(heading) : heading[i] \in Delimiters
    /\ \E i \in 1..Len(content) : content[i] \in Delimiters
    /\ Category(code) = "partnership"
    /\ Len(Children(code)) >= 1
    /\ Children(code)[1] # trim(split(content, {",", ".", ";"})[1])

\* the fragments the mind map shows, as text: the first five sentences that
\* are not empty, each sanitized
LeafFragments(c) ==
    LET ps == FirstUpTo(SelectSeq(split(c, {".", "!", "?"}), NonEmpty), 5)
    IN  [k \in 1..Len(ps) |-> sanitizeText(ps[k])]

\* C12: in the mind map every leaf of a fragment longer than 50 characters
\* shows exactly its first 50 characters followed by the ellipsis, and every
\* leaf of a fragment of at most 50 characters shows it unchanged.
C12_LeafTruncation ==
    (genDone /\ code # <<>> /\ code[1].tpl = "mindmap\n") =>
        LET fs == LeafFragments(content)
            ch == Children(code)
        IN  /\ Len(ch) = Len(fs)
            /\ \A k \in 1..Len(fs) :
                   ch[k] = IF Len(fs[k]) > 50
                           THEN SubSeq(fs[k], 1, 50) \o <<".", ".", ".">>
                           ELSE fs[k]

\* ---------------------------------------------------------------------
\* Properties of sanitizeText

Forbidden == {"\"", "[", "]", "(", ")"}

NoForbidden(s) == \A i \in 1..Len(s) : s[i] \notin Forbidden

Trimmed(s) == s = <<>> \/ (s[1] \notin WhiteSpace /\ s[Len(s)] \notin WhiteSpace)

\* C10: sanitizeText is idempotent, and its result holds no double quote,
\* bracket or parenthesis and no leading or trailing white space.
C10_SanitizeIdempotent ==
    /\ sanCalls >= 1 => (NoForbidden(sanOnce) /\ Trimmed(sanOnce))
    /\ sanCalls = 2 => sanTwice = sanOnce

C10_Witness ==
    /\ sanCalls = 2
    /\ ~NoForbidden(text)
    /\ ~Trimmed(text)
    /\ \E i \in 1..Len(text) : text[i] = "\""
    /\ sanOnce # <<>>

\* ---------------------------------------------------------------------
\* Properties of generateTitleFromContent

DocLines == split(titleContent, {"\n"})

\* a line made of a single "#", then a space, then text
IsTitleLine(l) ==
    /\ Len(l) >= 3
    /\ l[1] = "#"
    /\ l[2] \in {" ", "\t"}
    /\ trim(SubSeq(l, 3, Len(l))) # <<>>

TitleLineIndices == { i \in 1..Len(DocLines) : IsTitleLine(DocLines[i]) }

FirstTitleLine ==
    DocLines[CHOOSE i \in TitleLineIndices : \A j \in TitleLineIndices : i <= j]

\* C13: when the document has a line "# text", the title is the trimmed
\* text of the first such line, wherever that line is; a line that starts
\* with two or more "#" is not such a line.
C13_TitleFromFirstHeading ==
    (titleDone /\ TitleLineIndices # {}) =>
        title = trim(SubSeq(FirstTitleLine, 3, Len(FirstTitleLine)))

FirstLineTrimmed == trim(DocLines[1])

\* C14: when the document has no line "# text" and its first line is not
\* blank, the title is the trimmed first line if that has at most 50
\* characters, else its first 47 characters and "..."; it is never longer
\* than 50 characters.
C14_TitleFromFirstLine ==
    (titleDone /\ TitleLineIndices = {} /\ FirstLineTrimmed # <<>>) =>
        /\ title = IF Len(FirstLineTrimmed) <= 50
                   THEN FirstLineTrimmed
                   ELSE SubSeq(FirstLineTrimmed, 1, 47) \o <<".", ".", ".">>
        /\ Len(title) <= 50

\* C15: the default title is returned only for a document without any
\* non-white-space text.
C15_DefaultOnlyWhenEmpty ==
    (titleDone /\ title = UntitledReport) =>
        \A i \in 1..Len(titleContent) : titleContent[i] \in WhiteSpace

\* ---------------------------------------------------------------------
\* Properties of the document store wrapper

GotReports == call.op = "getReports" /\ result.ok

\* C17: getReports(userId) returns exactly the stored reports of that
\* user, each once, ordered by createdAt descending; without such reports
\* it returns the empty list, not an error.
C17_ReportsOfUserNewestFirst ==
    GotReports =>
        LET rs == result.value IN
        /\ \A k \in 1..Len(rs) : rs[k] \in store /\ rs[k].userId = call.arg
        /\ \A d \in store :
               d.userId = call.arg => \E k \in 1..Len(rs) : rs[k] = d
        /\ \A j, k \in 1..Len(rs) : j # k => rs[j] # rs[k]
        /\ \A j, k \in 1..Len(rs) :
               j < k => rs[j].createdAt >= rs[k].createdAt
        /\ (~ \E d \in store : d.userId = call.arg) => rs = <<>>

C17_Witness ==
    /\ GotReports
    /\ Len(result.value) >= 2
    /\ result.value[1].id > result.value[2].id
    /\ result.value[1].createdAt > result.value[2].createdAt
    /\ \E d \in store : d.userId # call.arg

\* the failure categories of the wrapper
Category18(r) ==
    IF r.message = ConnectivityMessage THEN "connectivity"
    ELSE IF r.message = PermissionMessage THEN "permission"
    ELSE IF r.message = NotFoundMessage THEN "not-found"
    ELSE "generic"

\* C18: getReports turns the store's codes failed-precondition and
\* unavailable into a connectivity error, permission-denied into a
\* permission error and any other code into a generic error; getReport of
\* an id without document fails with a not-found error.
C18_FailureCategories ==
    /\ (call.op = "getReports" /\ call.err \in ErrorCodes) =>
           /\ ~result.ok
           /\ Category18(result) =
                  IF call.err \in {"failed-precondition", "unavailable"}
                  THEN "connectivity"
                  ELSE IF call.err = "permission-denied" THEN "permission"
                  ELSE "generic"
    /\ (call.op = "getReport" /\ call.err = NoError
            /\ ~ \E d \in store : d.id = call.arg) =>
           (~result.ok /\ Category18(result) = "not-found")

C18_Witness ==
    /\ call.op = "getReports"
    /\ call.err = "permission-denied"
    /\ \E d \in store : d.userId = call.arg
    /\ ~result.ok
    /\ result.message = PermissionMessage

\* ---------------------------------------------------------------------
\* Properties of the Home page

\* the report a waiting handleSaveReport holds was built, in this step, by
\* the Save button from the state of the page
BuiltBySaveAction(t) ==
    /\ PageShown /\ showVisualization /\ ~isSaving /\ isSaving'
    /\ user \in Users
    /\ trim(reportTitle) # <<>>
    /\ t.report[1].userId = user
    /\ t.report[1].title = reportTitle
    /\ t.report[1].content = markdownContent
    /\ t.report[1].animations = animations

\* the document d is the report that a handleSaveReport waiting for
\* saveReport holds
WrittenBySave(d) ==
    \E i \in 1..Len(tasks) :
        /\ tasks[i].pc = "saveReport"
        /\ tasks[i].report[1].userId \in Users
        /\ trim(tasks[i].report[1].title) # <<>>
        /\ d.userId = tasks[i].report[1].userId
        /\ d.title = tasks[i].report[1].title
        /\ d.content = tasks[i].report[1].content
        /\ d.animations = tasks[i].report[1].animations

\* C16: a document enters the store only when the saveReport call of a
\* handleSaveReport returns; that handler was started by the Save button
\* with a signed-in user and a non-blank title, and the document holds the
\* user id, markdownContent and animations of the moment it was started,
\* whatever the page did in between.
C16_SavedOnlyByExplicitSave ==
    [][ /\ \A d \in store' \ store : WrittenBySave(d)
        /\ \A i \in 1..Len(tasks') :
               tasks'[i].pc = "saveReport" =>
                   \/ \E j \in 1..Len(tasks) : tasks[j] = tasks'[i]
                   \/ BuiltBySaveAction(tasks'[i]) ]_vars

C16_Witness ==
    /\ PageShown
    /\ isSaving
    /\ \E d \in store :
           /\ d.userId = user
           /\ d.content # markdownContent
           /\ d.animations # animations

\* the failure of a collaborator is shown to the user
Surfaced ==
    \/ showToast /\ toastType = "error"
    \/ failure = "load" /\ loadError \notin {NoLoadError, NoReportsMessage}

\* the busy flag of the operation that failed is cleared
BusyCleared ==
    /\ failure = "load" => ~isLoadingReports
    /\ failure = "save" => ~isSaving
    /\ failure = "pdf" => ~isDownloading

\* C19: when a call of a collaborator made by the page fails (loading the
\* reports, saving or deleting a report, exporting the PDF), the step that
\* handles the failure leaves an error notification on the page and the
\* busy flag of that operation cleared.
C19_FailuresSurfaced ==
    (PageShown /\ failure # "none") => (Surfaced /\ BusyCleared)

\* ---------------------------------------------------------------------
\* Properties of MermaidDiagram

\* what a component shows: spinner, error text and diagram
Shown(d) == <<d.isLoading, d.error, d.innerHTML>>

\* C20: in the step where the render of one section's diagram fails, that
\* component gets the error 'Failed to render diagram' with isLoading
\* false, and what every other component shows (loading, error, diagram) is
\* as before.
C20_RenderFailureIsLocal ==
    [][ rejected' # 0 =>
          /\ diagrams'[rejected'].error = "Failed to render diagram"
          /\ diagrams'[rejected'].isLoading = FALSE
          /\ \A o \in 1..Len(diagrams) :
                 o # rejected' => Shown(diagrams'[o]) = Shown(diagrams[o]) ]_vars

C20_Witness ==
    /\ rejected # 0
    /\ diagrams[rejected].error = RenderFailedMessage
    /\ \E o \in 1..Len(diagrams) :
           /\ o # rejected
           /\ diagrams[o].innerHTML # <<>>
           /\ ~diagrams[o].isLoading
           /\ diagrams[o].error = NoDiagramError

\* ---------------------------------------------------------------------
\* Properties of renderDocument

\* the lines of the document of the page
PageLines == split(markdownContent, {"\n"})

\* what an element of the rendered document shows, line by line: each line
\* with the diagram that follows it, if any
ElementLines(e) ==
    IF e.kind = "section" THEN <<[line |-> e.text, diagram |-> e.diagram]>>
    ELSE LET ls == split(e.text, {"\n"}) IN
         [i \in 1..Len(ls) |-> [line |-> ls[i], diagram |-> <<>>]]

\* the lines the rendered document shows, in order
Emitted == Flatten([i \in 1..Len(document.content) |->
                       ElementLines(document.content[i])])

\* the diagram that belongs after the line at zero-based index i: that of
\* the section with this lineIndex
DiagramOfLine(i) ==
    IF \E k \in 1..Len(animations) : animations[k].lineIndex = i
    THEN LET k == CHOOSE k \in 1..Len(animations) :
                      animations[k].lineIndex = i
         IN  <<[content |-> animations[k].content,
                heading |-> animations[k].heading]>>
    ELSE <<>>

\* C21: for animations = findHeadingsAndContent(markdownContent) the rendered
\* document shows every line of the document exactly once and in the
\* original order, the diagram of each section right after the heading line
\* of that section and nowhere else, the sections in the order of their
\* lineIndex.
C21_DocumentInLineOrder ==
    ( /\ docDone /\ ~document.null
      /\ animations = findHeadingsAndContent(markdownContent).sections )
    => /\ ~document.raised
       /\ Len(Emitted) = Len(PageLines)
       /\ \A i \in 1..Len(Emitted) :
              /\ Emitted[i].line = PageLines[i]
              /\ Emitted[i].diagram = DiagramOfLine(i - 1)
       /\ \A i \in 1..Len(document.content) :
              document.content[i].kind = "section" =>
                  \A j \in 1..(i - 1) :
                      document.content[j].kind = "section" =>
                          document.content[j].index < document.content[i].index

\* two sections with text before, between and after them
C21_Witness ==
    /\ docDone /\ ~document.null /\ ~document.raised
    /\ Len(animations) = 2
    /\ Len(document.content) = 5
    /\ document.content[5].index = -1

\* ---------------------------------------------------------------------
\* Properties of handleDownloadPDF

\* C22: the diagram image that the PDF holds after the text line at index i
\* is the diagram rendered for the section whose lineIndex is i, also when
\* the diagram of an earlier section was not rendered or its image did not
\* load.
C22_DiagramsAligned ==
    \A n \in 1..Len(pdf.images) :
        LET k == findSection(animations, pdf.images[n].line) IN
        /\ k # 0
        /\ pdf.images[n].component = k

\* the same when every diagram was rendered and every image loads
C22_AlignedWithoutFailure ==
    ( /\ pdf.pc = "saved"
      /\ Len(pdf.diagrams) = Len(animations)
      /\ Len(pdf.images) = Len(pdf.diagrams) )
    => C22_DiagramsAligned

\* ---------------------------------------------------------------------
\* Properties of the editor of the Home page

\* the section points at a line of the document, and a heading line
PointsAtHeading(section) ==
    /\ section.lineIndex >= 0
    /\ section.lineIndex < Len(PageLines)
    /\ startsWith(PageLines[section.lineIndex + 1], <<"#">>)

\* C23: whenever the visualization is shown, every section of animations
\* has a lineIndex that is an index of a line of markdownContent, that line
\* starts with '#', and renderDocument does not raise.
C23_SectionsPointAtHeadings ==
    (PageShown /\ showVisualization) =>
        /\ \A k \in 1..Len(animations) : PointsAtHeading(animations[k])
        /\ ~renderDocument(markdownContent, animations, TRUE).raised

\* a stored report is shown: content and sections come from the report,
\* and the section is at the second line
C23_Witness ==
    /\ PageShown /\ showVisualization
    /\ selectedReport # <<>>
    /\ animations # <<>>
    /\ animations[1].lineIndex = 1

\* ---------------------------------------------------------------------
\* Properties of the list of reports

\* a call of loadReports has not completed
LoadsInFlight ==
    \E i \in 1..Len(tasks) : tasks[i].pc \in {"getReports", "gotReports"}

\* no load has failed since the last one was started
LoadsSucceeded == loadError \in {NoLoadError, NoReportsMessage}

\* what getReports returns for the user from the documents of the store
StoredReports == getReports(store, user, TRUE, NoError).value

\* C24: once every call of loadReports has completed, none of them with an
\* error, the list of reports of the page is the list of the user's reports
\* in the store, whatever the order in which overlapping calls completed.
C24_ListMatchesStore ==
    (PageShown /\ ~LoadsInFlight /\ LoadsSucceeded) => reports = StoredReports

\* ---------------------------------------------------------------------
\* Properties of a diagram whose section changes

\* the effect of the component has run for its props and every call of
\* mermaid.render has completed, none with an error since then
Settled(d) ==
    /\ ~d.effect
    /\ d.renders = {}
    /\ d.content # <<>>
    /\ d.error = NoDiagramError

\* C25: when the props of a component changed while mermaid.render was in
\* flight, the svg shown in the end is the one of the program generated
\* from the latest content and heading: the older call does not overwrite
\* what the newer one put into the container.
C25_LatestDiagramShown ==
    \A k \in 1..Len(diagrams) :
        Settled(diagrams[k]) =>
            diagrams[k].innerHTML =
                generateMermaidCode(diagrams[k].content, diagrams[k].heading)

\* ---------------------------------------------------------------------
\* Properties of the toast

\* the step hides the toast that is shown
ToastHidden == PageShown' /\ showToast /\ ~showToast'

\* the step blanks the message of a toast that stays shown
ToastBlanked ==
    PageShown' /\ showToast /\ showToast' /\ toastMessage # ""
        /\ toastMessage' = ""

\* C26: a toast stays visible and keeps its message until its own hide
\* timer fires. The timers have the same delay and fire in the order of
\* the calls, so the toast is hidden by a timer of its own call only if no
\* hide timer is pending but those set in the step that showed it.
C26_ToastUntilOwnTimer ==
    [][ /\ ToastHidden => hideTimers <= ownTimers
        /\ ~ToastBlanked ]_vars

\* the two parts of C26 on their own
C26_NotHiddenEarly == [][ ToastHidden => hideTimers <= ownTimers ]_vars

C26_NotBlanked == [][ ~ToastBlanked ]_vars

\* ---------------------------------------------------------------------
\* Properties of handleDeleteReport

\* the step completes the handleDeleteReport that waits as tasks[i], after
\* deleteReport succeeded
DeleteCompletes(i) ==
    /\ PageShown /\ PageShown'
    /\ tasks[i].kind = "delete"
    /\ tasks[i].pc = "gotReports"
    /\ tasks' = RemoveAt(tasks, i)

\* the step completes the handleDeleteReport that waits as tasks[i], with
\* deleteReport failed
DeleteFails(i) ==
    /\ PageShown /\ PageShown'
    /\ tasks[i].kind = "delete"
    /\ tasks[i].pc = "deleteReport"
    /\ tasks' = RemoveAt(tasks, i)

\* the step resets the editor
EditorReset ==
    /\ selectedReport' = <<>>
    /\ markdownContent' = <<>>
    /\ animations' = <<>>
    /\ showVisualization' = FALSE
    /\ reportTitle' = <<>>

\* the id of the report that is selected, 0 for none
SelectedId == IF selectedReport = <<>> THEN 0 ELSE selectedReport[1].id

\* C27: a handleDeleteReport whose delete succeeded resets the editor
\* exactly when the id it deleted is the id of the report selected at that
\* moment, and leaves the five fields as they are otherwise; one whose
\* delete failed leaves the five fields and the list of reports as they are.
C27_DeleteResetsSelected ==
    [][ \A i \in 1..Len(tasks) :
            /\ DeleteCompletes(i) =>
                   IF SelectedId = tasks[i].reportId
                   THEN EditorReset
                   ELSE UNCHANGED editorVars
            /\ DeleteFails(i) => UNCHANGED <<editorVars, reports>> ]_vars

\* the same with the report that was selected when Delete was clicked
C27_ResetByClosure ==
    [][ \A i \in 1..Len(tasks) :
            /\ DeleteCompletes(i) =>
                   IF tasks[i].selected = tasks[i].reportId
                   THEN EditorReset
                   ELSE UNCHANGED editorVars
            /\ DeleteFails(i) => UNCHANGED <<editorVars, reports>> ]_vars

====
